---- MODULE Spec2Model ----
(***************************************************************************)
(* Model of the Goodland loan-management calculation engine                *)
(* (backend/src/utils/calculations.js and the cashflow route that uses     *)
(* it).  Dates are JavaScript Date values: an instant counted in clock     *)
(* ticks since 1970-01-01, TicksPerDay ticks to the day.  Dates read from  *)
(* the database are midnights (a multiple of TicksPerDay); the wall clock  *)
(* "new Date()" is any instant.  The process runs with TZ = UTC, so local  *)
(* calendar fields and UTC calendar fields coincide.  Money is exact       *)
(* rational arithmetic (no binary floating-point rounding error).          *)
(***************************************************************************)
EXTENDS Integers, Sequences, FiniteSets, TLC

VARIABLES
  pc,                  \* position of the running call or request
  now,                 \* the wall clock: what new Date() returns at this moment
  ticks,               \* instants the clock has advanced since the call started
  args,                \* the arguments of the call (fn names the function)
  ret,                 \* the value a function call returned
  currentPaymentDate,  \* generatePaymentSchedule: the candidate due date
  payments,            \* generatePaymentSchedule: the dates emitted so far
  schedEndDate,          \* generatePaymentSchedule: its endDate argument
  schedPredictionEndDate, \* generatePaymentSchedule: its predictionEndDate argument
  loanData,            \* GET /monthly: borrowerPaymentSchedule of each loan mapped so far
  i,                   \* GET /monthly: index of the month loop
  cashflowData,        \* GET /monthly: the month records pushed so far
  store,               \* the rows of table investor_payment_reminders
  view,                \* InvestorRemindersTab: the payments of the last response shown
  noteDialog,          \* InvestorRemindersTab: the note dialog of "Mark as Paid"
  requests             \* the mark-status requests in flight (markPaymentMutation)

schedVars == <<currentPaymentDate, payments, schedEndDate, schedPredictionEndDate>>

flowVars == <<loanData, i, cashflowData>>

remVars == <<store, view, noteDialog, requests>>

vars == <<pc, now, ticks, args, ret, schedVars, flowVars, remVars>>

(***************************************************************************)
(* Bounds of the model.                                                    *)
(***************************************************************************)
\* clock resolution: instants per calendar day
TicksPerDay == 2
\* how many instants the wall clock may advance while one call is running
MaxClockTicks == 1
\* number of consecutive calendar days the period inputs are drawn from
PeriodWindowDays == 125
\* distance in days of the far start, repayment and expiry dates from today
LoanDateSpan == 20
\* number of consecutive calendar days the schedule anchors are drawn from
AnchorWindowDays == 480
\* distance in days from the anchor to the far end date of a schedule
ScheduleSpanDays == 100
\* days, from the start of the period window, of the upfront-interest calls
UpfrontWindowDays == 70
\* days of anchors, from 2024-01-27 on, of the calls checked for termination
FairWindowDays == 16
\* the longest forecast horizon requested, in months
MaxMonths == 3
\* days observed after 2024-03-01 by the reminders tab
MaxReminderDays == 17
\* days before today from which the status of a loan is watched
LifecycleDays == 52
\* mark-status requests in flight at once from clients other than the tab
MaxInFlight == 2

(***************************************************************************)
(* ECMAScript Date arithmetic.                                             *)
(***************************************************************************)
\* null / undefined: a value outside every domain of dates, amounts and ids
NULL == 0 - 1000000

\* Math.ceil(x / d) for d > 0
CeilDiv(x, d) == -((-x) \div d)

\* ECMAScript DaysInYear / leap year rule
IsLeap(y) == (y % 4 = 0 /\ y % 100 # 0) \/ y % 400 = 0

\* days in month m (0-based, as Date.getMonth) of year y
DaysInMonth(y, m) ==
  IF m = 1 THEN (IF IsLeap(y) THEN 29 ELSE 28)
  ELSE IF m \in {3, 5, 8, 10} THEN 30 ELSE 31

\* ECMAScript DayFromYear(y): day number of January 1st of year y
DayFromYear(y) ==
  365 * (y - 1970) + ((y - 1969) \div 4) - ((y - 1901) \div 100) + ((y - 1601) \div 400)

RECURSIVE DaysBeforeMonth(_, _)
DaysBeforeMonth(y, m) ==
  IF m = 0 THEN 0 ELSE DaysBeforeMonth(y, m - 1) + DaysInMonth(y, m - 1)

\* ECMAScript MakeDay(year, month, date): month may exceed 11 and date may lie
\* outside the month; the result is the day number of the overflowed date
MakeDay(y, m, d) ==
  LET ym == y + (m \div 12)
      mn == m % 12
  IN DayFromYear(ym) + DaysBeforeMonth(ym, mn) + d - 1

\* ECMAScript YearFromTime on a day number
YearFromDay(day) ==
  LET guess == 1970 + (day \div 366)
  IN CHOOSE y \in (guess - 1)..(guess + 2) : DayFromYear(y) <= day /\ day < DayFromYear(y + 1)

\* ECMAScript MonthFromTime on a day number (0-based)
MonthFromDay(day) ==
  LET y == YearFromDay(day)
      doy == day - DayFromYear(y)
  IN CHOOSE m \in 0..11 :
       DaysBeforeMonth(y, m) <= doy /\ doy < DaysBeforeMonth(y, m) + DaysInMonth(y, m)

\* ECMAScript DateFromTime on a day number (1-based day of the month)
DateFromDay(day) ==
  LET y == YearFromDay(day)
  IN day - DayFromYear(y) - DaysBeforeMonth(y, MonthFromDay(day)) + 1

\* the day number and the time within the day of an instant
Day(t) == t \div TicksPerDay
TimeWithinDay(t) == t % TicksPerDay

getFullYear(t) == YearFromDay(Day(t))
getMonth(t) == MonthFromDay(Day(t))
getDate(t) == DateFromDay(Day(t))

\* new Date(year, month, date): midnight of the (overflowed) calendar date
NewDate(y, m, d) == MakeDay(y, m, d) * TicksPerDay

\* d.setMonth(d.getMonth() + k): same day-of-month and time of day, k months on,
\* overflowing into the following month when the target month is shorter
AddMonths(t, k) ==
  MakeDay(getFullYear(t), getMonth(t) + k, getDate(t)) * TicksPerDay + TimeWithinDay(t)

\* d.setDate(d.getDate() + k)
AddDays(t, k) == t + k * TicksPerDay

\* Math.ceil((a - b) / (1000 * 60 * 60 * 24))
CeilDays(a, b) == CeilDiv(a - b, TicksPerDay)

\* new Date(year, month + 1, 0).getDate() for the month holding t
DaysInMonthOf(t) == DaysInMonth(getFullYear(t), getMonth(t))

\* midnight of calendar date y-m-d with m 1-based, as a database DATE reads
Ymd(y, m, d) == NewDate(y, m - 1, d)

(***************************************************************************)
(* calculateContractPeriod                                                 *)
(***************************************************************************)
\* the while loop of calculateContractPeriod: <<currentDate, fullMonths>> at exit
RECURSIVE MonthWalk(_, _, _)
MonthWalk(current, end, fullMonths) ==
  IF current < end
  THEN LET nextMonth == AddMonths(current, 1)
       IN IF nextMonth <= end
          THEN MonthWalk(nextMonth, end, fullMonths + 1)
          ELSE <<current, fullMonths>>
  ELSE <<current, fullMonths>>

\* daysInLastMonth taken from the month of the end date
calculateContractPeriodEndMonth(startDate, endDate) ==
  LET totalDays == CeilDays(endDate, startDate)
      walk == MonthWalk(startDate, endDate, 0)
      current == walk[1]
  IN [fullMonths |-> walk[2],
      remainingDays |-> CeilDays(endDate, current),
      daysInLastMonth |-> DaysInMonthOf(endDate),
      totalDays |-> totalDays]

calculateContractPeriod(startDate, endDate) ==
  LET totalDays == CeilDays(endDate, startDate)
      walk == MonthWalk(startDate, endDate, 0)
      current == walk[1]
  IN [fullMonths |-> walk[2],
      remainingDays |-> CeilDays(endDate, current),
      daysInLastMonth |-> DaysInMonthOf(current),
      totalDays |-> totalDays]

\* no schedule is being generated
ScheduleIdle ==
  /\ currentPaymentDate = NULL
  /\ payments = <<>>
  /\ schedEndDate = NULL
  /\ schedPredictionEndDate = NULL

\* no cashflow request is being served
CashflowIdle ==
  /\ loanData = <<>>
  /\ i = 0
  /\ cashflowData = <<>>

\* the reminders table is empty and the reminders tab is not open
RemindersIdle ==
  /\ store = {}
  /\ view = <<>>
  /\ noteDialog = [open |-> FALSE, reminderKey |-> <<>>]
  /\ requests = <<>>

(***************************************************************************)
(* Specification of the period arithmetic: a call with any two database    *)
(* dates of the window.                                                    *)
(***************************************************************************)
PeriodWindowStart == Ymd(2024, 1, 1)

PeriodDates == {AddDays(PeriodWindowStart, k) : k \in 0..(PeriodWindowDays - 1)}

InitPeriod ==
  /\ pc = "call"
  /\ now = PeriodWindowStart
  /\ ticks = 0
  /\ args \in [fn : {"calculateContractPeriod"}, startDate : PeriodDates, endDate : PeriodDates]
  /\ ret = NULL
  /\ ScheduleIdle
  /\ CashflowIdle
  /\ RemindersIdle

CallContractPeriod ==
  /\ pc = "call"
  /\ args.fn = "calculateContractPeriod"
  /\ ret' = calculateContractPeriod(args.startDate, args.endDate)
  /\ pc' = "done"
  /\ UNCHANGED <<now, ticks, args, schedVars, flowVars, remVars>>

NextPeriod == CallContractPeriod

SpecPeriod == InitPeriod /\ [][NextPeriod]_vars

(***************************************************************************)
(* getUpfrontInterestStatus.  Money amounts are whole cents.               *)
(***************************************************************************)
\* JavaScript truthiness of a project id (null / undefined / 0 are falsy)
Truthy(v) == v # NULL /\ v # 0

\* const isDebugging = projectId && (expectedInterest > 30000 || actualPaidAmount > 0)
\* (30000 dollars = 3000000 cents; null > 0 and undefined > 0 are false)
isDebugging(expectedInterest, actualPaidAmount, projectId) ==
  /\ Truthy(projectId)
  /\ \/ expectedInterest > 3000000
     \/ (actualPaidAmount # NULL /\ actualPaidAmount > 0)

\* actualPaidAmount >= expectedInterest - expectedInterest * 0.01 with >= replaced
\* by > (the boundary payment no longer counts as paid)
sufficientPaymentStrict(expectedInterest, actualPaidAmount) ==
  actualPaidAmount * 100 > expectedInterest * 100 - expectedInterest

\* const tolerance = expectedInterest * 0.01;
\* const sufficientPayment = actualPaidAmount >= (expectedInterest - tolerance);
\* both sides scaled by 100 to stay in whole numbers
sufficientPayment(expectedInterest, actualPaidAmount) ==
  actualPaidAmount * 100 >= expectedInterest * 100 - expectedInterest

\* currentDate is the value new Date() returns at line 65.  The diagnostic block
\* at lines 74-82 calls actualPaidAmount.toFixed(2), which throws a TypeError
\* when the amount is null or undefined.
getUpfrontInterestStatus(expectedInterest, actualPaidAmount, contractStartDate, projectId, repaymentDate, expiryDate, currentDate) ==
  IF isDebugging(expectedInterest, actualPaidAmount, projectId) /\ actualPaidAmount = NULL
  THEN "TypeError"
  ELSE IF currentDate < contractStartDate THEN "pending"
  ELSE IF actualPaidAmount = NULL \/ actualPaidAmount = 0 THEN "overdue"
  ELSE IF sufficientPayment(expectedInterest, actualPaidAmount) THEN "paid"
  ELSE "partial"

(***************************************************************************)
(* getLoanStatus.  The function reads the clock up to three times (lines   *)
(* 171, 189 and 197); read1 <= read2 <= read3 are the values it gets.      *)
(***************************************************************************)
SpecialProjects == {59, 55, 51}

\* the classification with the first threshold exclusive
MaturityStatusStrict(daysToMaturity) ==
  IF daysToMaturity <= 0 THEN "overdue"
  ELSE IF daysToMaturity < 7 THEN "due_soon"
  ELSE IF daysToMaturity <= 14 THEN "due_this_week"
  ELSE IF daysToMaturity <= 30 THEN "due_this_month"
  ELSE "active"

\* the classification by daysToMaturity, lines 201-212
MaturityStatus(daysToMaturity) ==
  IF daysToMaturity <= 0 THEN "overdue"
  ELSE IF daysToMaturity <= 7 THEN "due_soon"
  ELSE IF daysToMaturity <= 14 THEN "due_this_week"
  ELSE IF daysToMaturity <= 30 THEN "due_this_month"
  ELSE "active"

\* the normal rules, lines 188-212
NormalLoanStatus(loanStartDate, loanEndDate, daysToMaturity, read2, read3) ==
  IF loanStartDate > read2
  THEN (IF daysToMaturity <= 14 THEN "starting_soon" ELSE "pending")
  ELSE IF loanEndDate < read3 THEN "completed"
  ELSE MaturityStatus(daysToMaturity)

\* getLoanStatus with an expiry on the repayment date counted as an extension
getLoanStatusExtensionInclusive(projectId, loanStartDate, loanEndDate, daysToMaturity, expiryDate, read1, read2, read3) ==
  IF projectId \in SpecialProjects /\ loanEndDate < read1 THEN "overdue"
  ELSE IF projectId \in SpecialProjects /\ expiryDate <= loanEndDate THEN "overdue-extension"
  ELSE NormalLoanStatus(loanStartDate, loanEndDate, daysToMaturity, read2, read3)

\* getLoanStatus with the two override scenarios tested in the opposite order
getLoanStatusExtensionFirst(projectId, loanStartDate, loanEndDate, daysToMaturity, expiryDate, read1, read2, read3) ==
  IF projectId \in SpecialProjects /\ expiryDate < loanEndDate THEN "overdue-extension"
  ELSE IF projectId \in SpecialProjects /\ loanEndDate < read1 THEN "overdue"
  ELSE NormalLoanStatus(loanStartDate, loanEndDate, daysToMaturity, read2, read3)

getLoanStatus(projectId, loanStartDate, loanEndDate, daysToMaturity, expiryDate, read1, read2, read3) ==
  IF projectId \in SpecialProjects /\ loanEndDate < read1 THEN "overdue"
  ELSE IF projectId \in SpecialProjects /\ expiryDate < loanEndDate THEN "overdue-extension"
  ELSE NormalLoanStatus(loanStartDate, loanEndDate, daysToMaturity, read2, read3)

(***************************************************************************)
(* Specifications of the two status functions.                             *)
(***************************************************************************)
\* the calendar day the clock stands in when a status call starts
Today == Ymd(2024, 6, 15)

\* the instants of Today
ClockValues == {Today + k : k \in 0..(TicksPerDay - 1)}

\* the instant at which the running call started
CallNow == now - ticks

ProjectIds == SpecialProjects \cup {7, NULL}

StatusDates == {AddDays(Today, k) : k \in {-LoanDateSpan, -1, 0, 1, LoanDateSpan}}

ExpectedAmounts == {0, 1000000, 3000000, 5000000}

PaidAmounts == {NULL, 0, 1, 989999, 990000, 1000000, 4950000}

InitInterestStatus ==
  /\ pc = "call"
  /\ now \in ClockValues
  /\ ticks = 0
  /\ args \in [fn : {"getUpfrontInterestStatus"},
               expectedInterest : ExpectedAmounts,
               actualPaidAmount : PaidAmounts,
               contractStartDate : {AddDays(Today, k) : k \in {-1, 0, 1}},
               projectId : {59, 7, NULL},
               repaymentDate : {AddDays(Today, k) : k \in {-1, LoanDateSpan}},
               expiryDate : {AddDays(Today, k) : k \in {-1, LoanDateSpan}}]
  /\ ret = NULL
  /\ ScheduleIdle
  /\ CashflowIdle
  /\ RemindersIdle

CallUpfrontInterestStatus ==
  /\ pc = "call"
  /\ args.fn = "getUpfrontInterestStatus"
  /\ ret' = getUpfrontInterestStatus(args.expectedInterest, args.actualPaidAmount,
                                     args.contractStartDate, args.projectId,
                                     args.repaymentDate, args.expiryDate, now)
  /\ pc' = "done"
  /\ UNCHANGED <<now, ticks, args, schedVars, flowVars, remVars>>

NextInterestStatus == CallUpfrontInterestStatus

SpecInterestStatus == InitInterestStatus /\ [][NextInterestStatus]_vars

InitLoanStatus ==
  /\ pc = "call"
  /\ now \in ClockValues
  /\ ticks = 0
  /\ args \in [fn : {"getLoanStatus"},
               projectId : ProjectIds,
               loanStartDate : StatusDates,
               loanEndDate : StatusDates,
               daysToMaturity : {-1, 0, 1, 7, 8, 14, 15, 30, 31},
               expiryDate : StatusDates]
  /\ ret = NULL
  /\ ScheduleIdle
  /\ CashflowIdle
  /\ RemindersIdle

\* one call; the clock may advance between the function's reads of it
CallLoanStatus ==
  /\ pc = "call"
  /\ args.fn = "getLoanStatus"
  /\ \E d2 \in 0..MaxClockTicks : \E d3 \in d2..MaxClockTicks :
       /\ ret' = getLoanStatus(args.projectId, args.loanStartDate, args.loanEndDate,
                               args.daysToMaturity, args.expiryDate,
                               now, now + d2, now + d3)
       /\ now' = now + d3
       /\ ticks' = d3
  /\ pc' = "done"
  /\ UNCHANGED <<args, schedVars, flowVars, remVars>>

NextLoanStatus == CallLoanStatus

SpecLoanStatus == InitLoanStatus /\ [][NextLoanStatus]_vars

(***************************************************************************)
(* Status claims                                                           *)
(***************************************************************************)
LoanStatusDone == pc = "done" /\ args.fn = "getLoanStatus"

\* C6: a loan of a special project (59, 55, 51) whose repayment date is before
\* the current date gets 'overdue', whatever its start date, expiry date and
\* daysToMaturity are.
C6_SpecialPastDueIsOverdue ==
  (LoanStatusDone /\ args.projectId \in SpecialProjects /\ args.loanEndDate < CallNow)
    => ret = "overdue"

\* a special-project loan past its repayment date whose daysToMaturity is
\* positive, which has not started by its start date and whose expiry precedes
\* its repayment date: every later rule would have answered otherwise
C6_Witness ==
  /\ LoanStatusDone
  /\ args.projectId = 55
  /\ args.loanEndDate < CallNow
  /\ args.daysToMaturity = 31
  /\ args.expiryDate < args.loanEndDate
  /\ ret = "overdue"

InterestStatusDone == pc = "done" /\ args.fn = "getUpfrontInterestStatus"

\* C7: the rules apply in strict order for every input: 'pending' whenever
\* now < contractStart, whatever was paid; otherwise 'overdue' whenever the paid
\* amount is zero or absent; otherwise 'paid' or 'partial'; one of these four
\* values always, and the same one for every project id, repayment date and
\* expiry date.
C7_RulesInOrder ==
  InterestStatusDone =>
    /\ ret \in {"pending", "overdue", "paid", "partial"}
    /\ (now < args.contractStartDate => ret = "pending")
    /\ (now >= args.contractStartDate /\ args.actualPaidAmount \in {NULL, 0}
          => ret = "overdue")
    /\ (now >= args.contractStartDate /\ args.actualPaidAmount \notin {NULL, 0}
          => ret \in {"paid", "partial"})
    /\ \A p \in ProjectIds : \A r, e \in StatusDates :
         ret = getUpfrontInterestStatus(args.expectedInterest, args.actualPaidAmount,
                                        args.contractStartDate, p, r, e, now)

\* C8: after the contract start and with a nonzero payment the status is 'paid'
\* exactly when actualPaid >= expected - 0.01 * expected (boundary included) and
\* 'partial' otherwise; expected = 10000.00 with 9900.00 paid is 'paid', with
\* 9899.99 paid it is 'partial'.
C8_ToleranceBoundary ==
  (/\ InterestStatusDone
   /\ now >= args.contractStartDate
   /\ args.actualPaidAmount \notin {NULL, 0})
    => /\ ret = (IF 100 * args.actualPaidAmount >= 99 * args.expectedInterest
                 THEN "paid" ELSE "partial")
       /\ (args.expectedInterest = 1000000 /\ args.actualPaidAmount = 990000
             => ret = "paid")
       /\ (args.expectedInterest = 1000000 /\ args.actualPaidAmount = 989999
             => ret = "partial")

\* the boundary payment itself: 9900.00 paid of 10000.00 expected, after the start
C8_Witness ==
  /\ InterestStatusDone
  /\ now >= args.contractStartDate
  /\ args.expectedInterest = 1000000
  /\ args.actualPaidAmount = 990000
  /\ ret = "paid"

(***************************************************************************)
(* Period claims                                                           *)
(***************************************************************************)
\* start advanced by k calendar months, same day-of-month, clamped to the last
\* valid day of a shorter target month (the calendar-month advance the
\* specification describes)
ClampedAddMonths(t, k) ==
  LET mm == getMonth(t) + k
      y == getFullYear(t) + (mm \div 12)
      m == mm % 12
      d == IF getDate(t) > DaysInMonth(y, m) THEN DaysInMonth(y, m) ELSE getDate(t)
  IN NewDate(y, m, d) + TimeWithinDay(t)

\* the largest k such that start advanced by k calendar months does not exceed end
MaxWholeMonths(start, end) ==
  CHOOSE k \in 0..PeriodWindowDays :
    /\ ClampedAddMonths(start, k) <= end
    /\ ClampedAddMonths(start, k + 1) > end

PeriodDone == pc = "done" /\ args.fn = "calculateContractPeriod"

\* C1: for start < end, fullMonths is the largest k such that start advanced by k
\* calendar months (clamped to the month end) does not exceed end, and
\* remainingDays is counted from that clamped boundary; 2024-01-31 .. 2024-03-01
\* gives fullMonths = 1 and remainingDays = 1.
C1_ClampedMonthWalk ==
  (PeriodDone /\ args.startDate < args.endDate) =>
    LET k == MaxWholeMonths(args.startDate, args.endDate)
    IN /\ ret.fullMonths = k
       /\ ret.remainingDays = CeilDays(args.endDate, ClampedAddMonths(args.startDate, k))
       /\ (args.startDate = Ymd(2024, 1, 31) /\ args.endDate = Ymd(2024, 3, 1)
             => ret.fullMonths = 1 /\ ret.remainingDays = 1)

\* C9: for every pair of dates, end <= start included, the result has
\* fullMonths >= 0, remainingDays >= 0, totalDays >= 0, daysInLastMonth in
\* 28..31, and fullMonths = 0 whenever start >= end.
C9_PeriodFieldsNonNegative ==
  PeriodDone =>
    /\ ret.fullMonths >= 0
    /\ ret.remainingDays >= 0
    /\ ret.totalDays >= 0
    /\ ret.daysInLastMonth \in 28..31
    /\ (args.startDate >= args.endDate => ret.fullMonths = 0)

(***************************************************************************)
(* calculateBasePaymentDate and generatePaymentSchedule.  The schedule     *)
(* loop reads the clock in every iteration (line 150), so it is a sequence *)
(* of steps between which the clock may advance.                           *)
(***************************************************************************)
\* the later of the three dates, a last payment not taking precedence
calculateBasePaymentDateLatest(lastPaymentDate, startDate, transactionDate) ==
  IF transactionDate # NULL /\ transactionDate > startDate /\ transactionDate > lastPaymentDate
  THEN transactionDate
  ELSE IF lastPaymentDate # NULL THEN lastPaymentDate
  ELSE startDate

calculateBasePaymentDate(lastPaymentDate, startDate, transactionDate) ==
  IF lastPaymentDate # NULL THEN lastPaymentDate
  ELSE IF transactionDate # NULL /\ transactionDate > startDate THEN transactionDate
  ELSE startDate

\* the step without the month added: setDate(getDate() - 1) alone
NextPaymentDateBackward(d) == AddDays(d, -1)

\* setMonth(getMonth() + 1); setDate(getDate() - 1)
NextPaymentDate(d) == AddDays(AddMonths(d, 1), -1)

\* the first candidate with the flag ignored
FirstPaymentDateAnchor(basePaymentDate, hasLastPayment) == basePaymentDate

\* lines 138-145: the first candidate
FirstPaymentDate(basePaymentDate, hasLastPayment) ==
  IF hasLastPayment THEN NextPaymentDate(basePaymentDate) ELSE basePaymentDate

\* the loop condition, line 148
ScheduleContinues(current, end, horizon) == current <= end /\ current <= horizon

\* the filter of line 150 left out: past candidates are emitted too
IncludePaymentAlways(current, clock) == TRUE

\* "only include future payments", line 150
IncludePayment(current, clock) == current >= clock

\* the clock advances while a call or request is running (for GET /monthly:
\* once the request has read the clock; an earlier advance is a later arrival)
Tick ==
  /\ pc \notin {"call", "done"}
  /\ args.fn = "cashflow" => (pc = "schedule" \/ Len(loanData) > 0 \/ i > 0)
  /\ ticks < MaxClockTicks
  /\ now' = now + 1
  /\ ticks' = ticks + 1
  /\ UNCHANGED <<pc, args, ret, schedVars, flowVars, remVars>>

\* lines 131-145: entry of generatePaymentSchedule
CallGeneratePaymentSchedule ==
  /\ pc = "call"
  /\ args.fn = "generatePaymentSchedule"
  /\ IF args.basePaymentDate = NULL
     THEN /\ pc' = "done"
          /\ ret' = <<>>
          /\ UNCHANGED currentPaymentDate
     ELSE /\ pc' = "schedule"
          /\ ret' = ret
          /\ currentPaymentDate' = FirstPaymentDate(args.basePaymentDate, args.hasLastPayment)
  /\ UNCHANGED <<now, ticks, args, payments, schedEndDate, schedPredictionEndDate, flowVars, remVars>>

\* lines 148-157: one iteration of the while loop
ScheduleIteration ==
  /\ pc = "schedule"
  /\ ScheduleContinues(currentPaymentDate, schedEndDate, schedPredictionEndDate)
  /\ payments' = IF IncludePayment(currentPaymentDate, now)
                 THEN Append(payments, currentPaymentDate)
                 ELSE payments
  /\ currentPaymentDate' = NextPaymentDate(currentPaymentDate)
  /\ UNCHANGED <<pc, now, ticks, args, ret, schedEndDate, schedPredictionEndDate, flowVars, remVars>>

\* lines 148 and 159: the loop condition fails and the schedule is returned
ScheduleReturn ==
  /\ pc = "schedule"
  /\ args.fn = "generatePaymentSchedule"
  /\ ~ScheduleContinues(currentPaymentDate, schedEndDate, schedPredictionEndDate)
  /\ ret' = payments
  /\ pc' = "done"
  /\ UNCHANGED <<now, ticks, args, schedVars, flowVars, remVars>>

(***************************************************************************)
(* Specification of generatePaymentSchedule: any anchor of the window (or  *)
(* none), an end date and a horizon around it, and the clock before or     *)
(* after the anchor.                                                       *)
(***************************************************************************)
AnchorWindowStart == Ymd(2023, 12, 1)

AnchorDates == {AddDays(AnchorWindowStart, k) : k \in 0..(AnchorWindowDays - 1)}

ScheduleInputs ==
  {[fn |-> "generatePaymentSchedule", basePaymentDate |-> b, hasLastPayment |-> h,
    endDate |-> e, predictionEndDate |-> p, now |-> n] :
      b \in AnchorDates, h \in BOOLEAN,
      e \in {-1, 0, ScheduleSpanDays}, p \in {-1, 40, 2 * ScheduleSpanDays},
      n \in {-1, 0, 35 * TicksPerDay + 1}}
  \cup
  {[fn |-> "generatePaymentSchedule", basePaymentDate |-> NULL, hasLastPayment |-> h,
    endDate |-> 0, predictionEndDate |-> 40, now |-> 0] : h \in BOOLEAN}

\* the anchor the offsets of an input are counted from
InputAnchor(a) == IF a.basePaymentDate = NULL THEN AnchorWindowStart ELSE a.basePaymentDate

InitSchedule ==
  /\ pc = "call"
  /\ args \in ScheduleInputs
  /\ now = InputAnchor(args) + args.now
  /\ ticks = 0
  /\ ret = <<>>
  /\ currentPaymentDate = NULL
  /\ payments = <<>>
  /\ schedEndDate = AddDays(InputAnchor(args), args.endDate)
  /\ schedPredictionEndDate = AddDays(InputAnchor(args), args.predictionEndDate) + TimeWithinDay(now)
  /\ CashflowIdle
  /\ RemindersIdle

NextSchedule ==
  \/ CallGeneratePaymentSchedule
  \/ ScheduleIteration
  \/ ScheduleReturn
  \/ Tick

SpecSchedule == InitSchedule /\ [][NextSchedule]_vars

\* the calls anchored around the end of January and of February, or without
\* an anchor
InitScheduleFair ==
  /\ InitSchedule
  /\ args.basePaymentDate # NULL =>
       /\ args.basePaymentDate >= Ymd(2024, 1, 27)
       /\ args.basePaymentDate < AddDays(Ymd(2024, 1, 27), FairWindowDays)

\* the function runs to completion once called: no step of it waits on anything
SpecScheduleFair ==
  /\ InitScheduleFair
  /\ [][NextSchedule]_vars
  /\ WF_<<pc, currentPaymentDate>>(CallGeneratePaymentSchedule)
  /\ WF_<<pc, currentPaymentDate>>(ScheduleIteration)
  /\ WF_<<pc, currentPaymentDate>>(ScheduleReturn)

(***************************************************************************)
(* Schedule claims                                                         *)
(***************************************************************************)
\* whole days between two emitted dates
DaysBetween(a, b) == (b - a) \div TicksPerDay

\* the earlier of two dates
MinDate(a, b) == IF a <= b THEN a ELSE b

\* C5: every date generatePaymentSchedule emits is strictly later than the one
\* emitted before it, by between 27 and 31 days, and every emitted date d
\* satisfies now <= d <= min(endDate, horizonEnd).
C5_ScheduleMonotoneAndBounded ==
  args.fn = "generatePaymentSchedule" =>
    /\ \A k \in 1..(Len(payments) - 1) :
         /\ payments[k] < payments[k + 1]
         /\ payments[k + 1] - payments[k] >= 27 * TicksPerDay
         /\ payments[k + 1] - payments[k] <= 31 * TicksPerDay
    /\ \A k \in 1..Len(payments) :
         /\ CallNow <= payments[k]
         /\ payments[k] <= MinDate(schedEndDate, schedPredictionEndDate)
    /\ (pc = "done" => ret = payments)

\* a returned schedule of two dates or more whose first candidates lay in the
\* past and were dropped, and which steps over a February (a gap of 27 days)
C5_Witness ==
  /\ args.fn = "generatePaymentSchedule"
  /\ pc = "done"
  /\ Len(ret) >= 2
  /\ args.now > 0
  /\ \E k \in 1..(Len(ret) - 1) : DaysBetween(ret[k], ret[k + 1]) = 27

(***************************************************************************)
(* GET /monthly: the cashflow projection.  Amounts are exact fractions of  *)
(* a cent, <<numerator, denominator>> in lowest terms; rates are basis     *)
(* points (annual rate * 10000); names are sequences of characters.        *)
(***************************************************************************)
RECURSIVE GCD(_, _)
GCD(a, b) == IF b = 0 THEN (IF a < 0 THEN -a ELSE a) ELSE GCD(b, a % b)

\* the fraction n / d (d > 0) in lowest terms
Rat(n, d) == LET g == GCD(n, d) IN IF g = 0 THEN <<0, 1>> ELSE <<n \div g, d \div g>>

\* a * b, reduced across before multiplying
RMul(a, b) ==
  LET x == Rat(a[1], b[2])
      y == Rat(b[1], a[2])
  IN <<x[1] * y[1], x[2] * y[2]>>

RAdd(a, b) == Rat(a[1] * b[2] + b[1] * a[2], a[2] * b[2])

RSub(a, b) == RAdd(a, <<-b[1], b[2]>>)

RECURSIVE RSum(_)
RSum(amounts) == IF amounts = <<>> THEN <<0, 1>> ELSE RAdd(Head(amounts), RSum(Tail(amounts)))

\* Math.round(x * 100) / 100 of an amount in cents: the nearest cent, halves up
RoundCents(a) == (2 * a[1] + a[2]) \div (2 * a[2])

\* parseFloat(rate) / 12 for a rate in basis points
MonthlyRate(rateBp) == Rat(rateBp, 12 * 10000)

(***************************************************************************)
(* calculateUpfrontInterest, lines 38-60.  Amounts are exact fractions of  *)
(* a cent, the rate is in basis points.                                    *)
(***************************************************************************)
\* the partial month charged without the test remainingDays > 0
calculateUpfrontInterestUnguarded(loanAmount, borrowerRate, startDate, endDate) ==
  LET period == calculateContractPeriod(startDate, endDate)
      monthlyRate == MonthlyRate(borrowerRate)
      fullMonthsInterest ==
        RMul(RMul(monthlyRate, <<period.fullMonths, 1>>), <<loanAmount, 1>>)
      partialMonthInterest ==
        RMul(RMul(RMul(monthlyRate, <<1, period.daysInLastMonth>>),
                  <<period.remainingDays, 1>>),
             <<loanAmount, 1>>)
  IN [fullMonthsInterest |-> fullMonthsInterest,
      partialMonthInterest |-> partialMonthInterest,
      totalInterest |-> RAdd(fullMonthsInterest, partialMonthInterest),
      period |-> period]

calculateUpfrontInterest(loanAmount, borrowerRate, startDate, endDate) ==
  LET period == calculateContractPeriod(startDate, endDate)
      monthlyRate == MonthlyRate(borrowerRate)
      fullMonthsInterest ==
        RMul(RMul(monthlyRate, <<period.fullMonths, 1>>), <<loanAmount, 1>>)
      partialMonthInterest ==
        IF period.remainingDays > 0
        THEN RMul(RMul(RMul(monthlyRate, <<1, period.daysInLastMonth>>),
                       <<period.remainingDays, 1>>),
                  <<loanAmount, 1>>)
        ELSE <<0, 1>>
  IN [fullMonthsInterest |-> fullMonthsInterest,
      partialMonthInterest |-> partialMonthInterest,
      totalInterest |-> RAdd(fullMonthsInterest, partialMonthInterest),
      period |-> period]

\* paymentDate >= monthStart && paymentDate <= monthEnd
InMonth(d, monthStart, monthEnd) == d >= monthStart /\ d <= monthEnd

\* borrowerPaymentSchedule.some(...), lines 161-163
hasPaymentThisMonth(schedule, monthStart, monthEnd) ==
  \E k \in 1..Len(schedule) : InMonth(schedule[k], monthStart, monthEnd)

\* borrowerPaymentSchedule.find(...), lines 174-176 and 228-230
FindPayment(schedule, monthStart, monthEnd) ==
  LET hits == {k \in 1..Len(schedule) : InMonth(schedule[k], monthStart, monthEnd)}
  IN IF hits = {} THEN NULL ELSE schedule[CHOOSE k \in hits : \A h \in hits : k <= h]

\* line 170
isLastMonth(loan, monthStart, monthEnd) ==
  InMonth(loan.loan_repayment_date, monthStart, monthEnd)

\* Math.min(Math.ceil((loanEndDate - monthStart) / day), daysInMonth), lines 179-183
actualDaysInMonth(loan, monthStart, monthEnd) ==
  LET daysInMonth == DaysInMonthOf(monthEnd)
      elapsed == CeilDays(loan.loan_repayment_date, monthStart)
  IN IF elapsed < daysInMonth THEN elapsed ELSE daysInMonth

\* lines 167-197: the gross interest of the month
monthlyInterestAmount(loan, schedule, monthStart, monthEnd) ==
  IF /\ isLastMonth(loan, monthStart, monthEnd)
     /\ FindPayment(schedule, monthStart, monthEnd) # NULL
  THEN RMul(RMul(<<loan.loan_amount, 1>>,
                 RMul(MonthlyRate(loan.borrower_interest_rate),
                      <<1, DaysInMonthOf(monthEnd)>>)),
            <<actualDaysInMonth(loan, monthStart, monthEnd), 1>>)
  ELSE RMul(<<loan.loan_amount, 1>>, MonthlyRate(loan.borrower_interest_rate))

\* (loan.actualPaidGross || 1): one dollar, 100 cents, when the gross total is 0
GrossOrOne(loan) ==
  IF loan.total_interest_paid_gross = 0 THEN 100 ELSE loan.total_interest_paid_gross

\* the test without the check that the borrower has paid
ContributesInterestUnpaid(loan, schedule, monthStart, monthEnd) ==
  /\ loan.loan_start_date <= monthEnd
  /\ loan.loan_repayment_date >= monthStart
  /\ hasPaymentThisMonth(schedule, monthStart, monthEnd)

\* lines 157-165: the loan has a scheduled interest payment in the month
ContributesInterest(loan, schedule, monthStart, monthEnd) ==
  /\ loan.loan_start_date <= monthEnd
  /\ loan.loan_repayment_date >= monthStart
  /\ loan.total_interest_paid_net > 0
  /\ hasPaymentThisMonth(schedule, monthStart, monthEnd)

\* lines 199-231: the entry pushed to interestPayments
InterestPayment(loan, schedule, monthStart, monthEnd) ==
  LET grossAmount == monthlyInterestAmount(loan, schedule, monthStart, monthEnd)
      grossToNetRatio == Rat(loan.total_interest_paid_net, GrossOrOne(loan))
      taxRatio == Rat(loan.total_tax_paid, GrossOrOne(loan))
      feeRatio == Rat(loan.total_fees_paid, GrossOrOne(loan))
  IN [stageId |-> loan.id,
      grossAmount |-> grossAmount,
      netAmount |-> RMul(grossAmount, grossToNetRatio),
      taxAmount |-> RMul(grossAmount, taxRatio),
      feeAmount |-> RMul(grossAmount, feeRatio),
      isProrated |-> isLastMonth(loan, monthStart, monthEnd),
      scheduledPaymentDate |-> FindPayment(schedule, monthStart, monthEnd)]

\* the loop over loanData, lines 155-234, from loan k on
RECURSIVE InterestPayments(_, _, _, _, _)
InterestPayments(loans, schedules, k, monthStart, monthEnd) ==
  IF k > Len(loans) THEN <<>>
  ELSE (IF ContributesInterest(loans[k], schedules[k], monthStart, monthEnd)
        THEN <<InterestPayment(loans[k], schedules[k], monthStart, monthEnd)>>
        ELSE <<>>)
       \o InterestPayments(loans, schedules, k + 1, monthStart, monthEnd)

\* the maturities counted only for loans whose borrower has paid interest
RECURSIVE LoanMaturitiesPaidOnly(_, _, _, _)
LoanMaturitiesPaidOnly(loans, k, monthStart, monthEnd) ==
  IF k > Len(loans) THEN <<>>
  ELSE (IF /\ isLastMonth(loans[k], monthStart, monthEnd)
           /\ loans[k].total_interest_paid_net > 0
        THEN <<[stageId |-> loans[k].id,
                amount |-> loans[k].loan_amount,
                maturityDate |-> loans[k].loan_repayment_date]>>
        ELSE <<>>)
       \o LoanMaturitiesPaidOnly(loans, k + 1, monthStart, monthEnd)

\* lines 236-245: the loans maturing in the month, from loan k on
RECURSIVE LoanMaturities(_, _, _, _)
LoanMaturities(loans, k, monthStart, monthEnd) ==
  IF k > Len(loans) THEN <<>>
  ELSE (IF isLastMonth(loans[k], monthStart, monthEnd)
        THEN <<[stageId |-> loans[k].id,
                amount |-> loans[k].loan_amount,
                maturityDate |-> loans[k].loan_repayment_date]>>
        ELSE <<>>)
       \o LoanMaturities(loans, k + 1, monthStart, monthEnd)

\* String.prototype.toLowerCase on one character
ToLowerChar(c) ==
  LET upper == <<"A", "B", "C", "D", "E", "F", "G", "H", "I", "J", "K", "L", "M",
                 "N", "O", "P", "Q", "R", "S", "T", "U", "V", "W", "X", "Y", "Z">>
      lower == <<"a", "b", "c", "d", "e", "f", "g", "h", "i", "j", "k", "l", "m",
                 "n", "o", "p", "q", "r", "s", "t", "u", "v", "w", "x", "y", "z">>
  IN IF \E k \in 1..26 : upper[k] = c
     THEN lower[CHOOSE k \in 1..26 : upper[k] = c]
     ELSE c

toLowerCase(name) == [k \in 1..Len(name) |-> ToLowerChar(name[k])]

\* String.prototype.includes
includes(name, part) ==
  \E k \in 1..(Len(name) - Len(part) + 1) : SubSeq(name, k, k + Len(part) - 1) = part

\* investor.investor_name || `Investor ${investor.investor_id}`; an absent name
\* (null, or the empty string) is the empty sequence
investorName(investor) ==
  IF investor.investor_name = <<>>
  THEN <<"I", "n", "v", "e", "s", "t", "o", "r", " ", "#">>
  ELSE investor.investor_name

\* the name test without the case folding
isGoodlandInvestorCaseSensitive(investor) ==
  includes(investorName(investor), <<"g", "o", "o", "d", "l", "a", "n", "d">>)

isGoodlandInvestor(investor) ==
  includes(toLowerCase(investorName(investor)), <<"g", "o", "o", "d", "l", "a", "n", "d">>)

\* lines 249-275: the entries pushed to investorPayouts, from funding k on
RECURSIVE InvestorPayouts(_, _, _, _)
InvestorPayouts(fundings, k, monthStart, monthEnd) ==
  IF k > Len(fundings) THEN <<>>
  ELSE (IF /\ fundings[k].investor_start_date <= monthEnd
           /\ fundings[k].investor_end_date >= monthStart
        THEN <<[investorId |-> fundings[k].investor_id,
                stageId |-> fundings[k].stage_id,
                amount |-> RMul(<<fundings[k].investment_amount, 1>>,
                                MonthlyRate(fundings[k].investor_rate)),
                isGoodlandInvestor |-> isGoodlandInvestor(fundings[k]),
                excludedFromOutflows |-> isGoodlandInvestor(fundings[k])]>>
        ELSE <<>>)
       \o InvestorPayouts(fundings, k + 1, monthStart, monthEnd)

\* the amounts of the payouts that count as outflows
RECURSIVE Outflows(_)
Outflows(payouts) ==
  IF payouts = <<>> THEN <<>>
  ELSE (IF Head(payouts).excludedFromOutflows THEN <<>> ELSE <<Head(payouts).amount>>)
       \o Outflows(Tail(payouts))

\* lines 134-152 and 277-288: the record of the month holding targetDate
MonthData(loans, fundings, schedules, targetDate) ==
  LET monthStart == NewDate(getFullYear(targetDate), getMonth(targetDate), 1)
      monthEnd == NewDate(getFullYear(targetDate), getMonth(targetDate) + 1, 0)
      interestPayments == InterestPayments(loans, schedules, 1, monthStart, monthEnd)
      loanMaturies == LoanMaturities(loans, 1, monthStart, monthEnd)
      investorPayouts == InvestorPayouts(fundings, 1, monthStart, monthEnd)
      totalInterestReceivable ==
        RSum([k \in 1..Len(interestPayments) |-> interestPayments[k].netAmount])
      totalTaxes == RSum([k \in 1..Len(interestPayments) |-> interestPayments[k].taxAmount])
      totalFees == RSum([k \in 1..Len(interestPayments) |-> interestPayments[k].feeAmount])
      totalPrincipalDue == RSum([k \in 1..Len(loanMaturies) |-> <<loanMaturies[k].amount, 1>>])
      totalInvestorPayouts == RSum(Outflows(investorPayouts))
      totalCashInflow == RAdd(totalInterestReceivable, totalPrincipalDue)
      netCashflow == RSub(totalCashInflow, totalInvestorPayouts)
  IN [month |-> <<getFullYear(targetDate), getMonth(targetDate) + 1>>,
      monthStart |-> monthStart,
      monthEnd |-> monthEnd,
      totalInterestReceivable |-> RoundCents(totalInterestReceivable),
      totalTaxes |-> RoundCents(totalTaxes),
      totalFees |-> RoundCents(totalFees),
      totalPrincipalDue |-> RoundCents(totalPrincipalDue),
      totalCashInflow |-> RoundCents(totalCashInflow),
      totalInvestorPayouts |-> RoundCents(totalInvestorPayouts),
      netCashflow |-> RoundCents(netCashflow),
      loanMaturies |-> loanMaturies,
      interestPayments |-> interestPayments,
      investorPayouts |-> investorPayouts]

\* the loan the loanData map is working on
CurrentLoan == args.loans[Len(loanData) + 1]

\* lines 70-103: the map callback reaches generatePaymentSchedule for the next loan
LoanDataSchedule ==
  /\ pc = "loanData"
  /\ Len(loanData) < Len(args.loans)
  /\ schedPredictionEndDate' = AddMonths(now, args.months)
  /\ schedEndDate' = CurrentLoan.loan_repayment_date
  /\ currentPaymentDate' =
       FirstPaymentDate(calculateBasePaymentDate(CurrentLoan.last_payment_date,
                                                 CurrentLoan.loan_start_date, NULL),
                        CurrentLoan.last_payment_date # NULL)
  /\ payments' = <<>>
  /\ pc' = "schedule"
  /\ UNCHANGED <<now, ticks, args, ret, flowVars, remVars>>

\* lines 105-122: the schedule returns and the loan's record is built
LoanDataStore ==
  /\ pc = "schedule"
  /\ args.fn = "cashflow"
  /\ ~ScheduleContinues(currentPaymentDate, schedEndDate, schedPredictionEndDate)
  /\ loanData' = Append(loanData, payments)
  /\ pc' = "loanData"
  /\ UNCHANGED <<now, ticks, args, ret, schedVars, i, cashflowData, remVars>>

\* lines 133-295: one iteration of the month loop
MonthIteration ==
  /\ pc = "loanData"
  /\ Len(loanData) = Len(args.loans)
  /\ i < args.months
  /\ cashflowData' = Append(cashflowData,
                            MonthData(args.loans, args.investorFunding, loanData,
                                      AddMonths(now, i)))
  /\ i' = i + 1
  /\ UNCHANGED <<pc, now, ticks, args, ret, schedVars, loanData, remVars>>

\* the sum of an integer field over a sequence of records
RECURSIVE SumField(_, _)
SumField(records, field) ==
  IF records = <<>> THEN 0 ELSE Head(records)[field] + SumField(Tail(records), field)

\* line 71-76 and 110: expectedInterest of a loan, in cents
expectedInterest(loan) ==
  calculateUpfrontInterest(loan.loan_amount, loan.borrower_interest_rate,
                           loan.loan_start_date, loan.loan_repayment_date).totalInterest

\* l.actualPaidNet >= l.expectedInterest * 0.99
NetCoversExpected(loan) ==
  RSub(<<loan.total_interest_paid_net, 1>>, RMul(expectedInterest(loan), <<99, 100>>))[1] >= 0

\* line 298: loanData.filter(l => l.actualPaidNet >= l.expectedInterest * 0.99)
fullyPaidLoans(loans) ==
  Cardinality({k \in 1..Len(loans) : NetCoversExpected(loans[k])})

\* lines 297-315: the counts and totals of paymentAnalysis
paymentAnalysis(loans) ==
  LET WithPayment(l) == l.total_interest_paid_net > 0
      Partially(l) == l.total_interest_paid_net > 0 /\ ~NetCoversExpected(l)
      Unpaid(l) == l.total_interest_paid_net = 0
  IN [totalLoans |-> Len(loans),
      loansWithPayments |-> Cardinality({k \in 1..Len(loans) : WithPayment(loans[k])}),
      fullyPaidLoans |-> fullyPaidLoans(loans),
      partiallyPaidLoans |-> Cardinality({k \in 1..Len(loans) : Partially(loans[k])}),
      unpaidLoans |-> Cardinality({k \in 1..Len(loans) : Unpaid(loans[k])}),
      totalActualPaymentsGross |-> SumField(loans, "total_interest_paid_gross"),
      totalActualPaymentsNet |-> SumField(loans, "total_interest_paid_net"),
      totalTaxesPaid |-> SumField(loans, "total_tax_paid"),
      totalFeesPaid |-> SumField(loans, "total_fees_paid"),
      totalExpectedPayments |->
        RoundCents(RSum([k \in 1..Len(loans) |-> expectedInterest(loans[k])]))]

\* lines 302-329: the summary of the response
CashflowSummary(loans, months) ==
  [totalInflows |-> SumField(months, "totalCashInflow"),
   totalOutflows |-> SumField(months, "totalInvestorPayouts"),
   totalNetCashflow |-> SumField(months, "totalCashInflow")
                          - SumField(months, "totalInvestorPayouts"),
   paymentAnalysis |-> paymentAnalysis(loans)]

\* lines 339-343: the response is sent
Respond ==
  /\ pc = "loanData"
  /\ Len(loanData) = Len(args.loans)
  /\ i >= args.months
  /\ ret' = [success |-> TRUE, data |-> cashflowData,
             summary |-> CashflowSummary(args.loans, cashflowData)]
  /\ pc' = "done"
  /\ UNCHANGED <<now, ticks, args, schedVars, flowVars, remVars>>

(***************************************************************************)
(* Specification of GET /monthly: a book of loans and fundings as the two  *)
(* queries return them, a horizon, and the clock at a month's middle, end  *)
(* or start.                                                               *)
(***************************************************************************)
\* the payment totals of a loan: <<gross, net, tax, fees>> in cents
PaidTotals == {<<0, 0, 0, 0>>, <<120000, 100000, 15000, 5000>>, <<0, 500, 0, 0>>}

LoanChoices ==
  {[id |-> 1, project_id |-> (IF e = Ymd(2024, 1, 20) THEN 59 ELSE 7), loan_amount |-> 10000000, borrower_interest_rate |-> 1200,
    loan_start_date |-> s, loan_repayment_date |-> e, last_payment_date |-> l,
    total_interest_paid_gross |-> t[1], total_interest_paid_net |-> t[2],
    total_tax_paid |-> t[3], total_fees_paid |-> t[4]] :
      e \in {Ymd(2024, 1, 20), Ymd(2024, 4, 10), Ymd(2024, 5, 31)},
      s \in {Ymd(2024, 1, 10), Ymd(2024, 3, 5)},
      l \in {NULL, Ymd(2024, 2, 20)},
      t \in PaidTotals}

\* a second loan of the book
OtherLoan ==
  [id |-> 2, project_id |-> 7, loan_amount |-> 5000000, borrower_interest_rate |-> 900,
   loan_start_date |-> Ymd(2023, 11, 20), loan_repayment_date |-> Ymd(2024, 4, 25),
   last_payment_date |-> NULL,
   total_interest_paid_gross |-> 30000, total_interest_paid_net |-> 27000,
   total_tax_paid |-> 3000, total_fees_paid |-> 0]

\* a loan lent free of interest, nothing paid
InterestFreeLoan ==
  [id |-> 3, project_id |-> 7, loan_amount |-> 2000000, borrower_interest_rate |-> 0,
   loan_start_date |-> Ymd(2024, 1, 10), loan_repayment_date |-> Ymd(2024, 5, 31),
   last_payment_date |-> NULL,
   total_interest_paid_gross |-> 0, total_interest_paid_net |-> 0,
   total_tax_paid |-> 0, total_fees_paid |-> 0]

\* a funding of stage 1 by the investor of the given id and name
Funding(id, name) ==
  [stage_id |-> 1, investor_id |-> id, investor_rate |-> 960, investment_amount |-> 5000000,
   investor_start_date |-> Ymd(2024, 1, 10), investor_end_date |-> Ymd(2024, 3, 20),
   investor_name |-> name]

\* the rows of the funding query: an outside investor, the operating company
\* under two spellings, and an investor without a name
FundingRows ==
  <<[Funding(5, <<"S", "m", "i", "t", "h">>) EXCEPT !.investor_rate = 850],
    Funding(6, <<"G", "O", "O", "D", "L", "A", "N", "D", " ", "C">>),
    Funding(7, <<"T", "h", "e", " ", "g", "o", "o", "d", "l", "a", "n", "d">>),
    Funding(8, <<>>)>>

\* the days the request may arrive on
RequestDays == {Ymd(2024, 1, 15), Ymd(2024, 1, 31), Ymd(2024, 2, 29), Ymd(2024, 3, 1)}

\* WHERE ... AND (p.id IN (59, 55, 51) OR s.loan_repayment_date >= CURDATE())
SelectedByQuery(loan, clock) ==
  \/ loan.project_id \in SpecialProjects
  \/ Day(loan.loan_repayment_date) >= Day(clock)

Books(clock) ==
  LET selected == {l \in LoanChoices :
                     l.loan_start_date < l.loan_repayment_date /\ SelectedByQuery(l, clock)}
  IN {<<>>, <<OtherLoan, InterestFreeLoan>>} \cup {<<l>> : l \in selected}
       \cup {<<l, OtherLoan>> :
               l \in {x \in selected : x.last_payment_date = NULL
                                        /\ x.total_interest_paid_gross > 0}}

InitCashflow ==
  /\ pc = "loanData"
  /\ now \in {d + k : d \in RequestDays, k \in {0, TicksPerDay - 1}}
  /\ ticks = 0
  /\ args \in [fn : {"cashflow"},
               months : 1..MaxMonths,
               loans : Books(now),
               investorFunding : {<<>>, FundingRows}]
  /\ ret = NULL
  /\ ScheduleIdle
  /\ CashflowIdle
  /\ RemindersIdle

NextCashflow ==
  \/ LoanDataSchedule
  \/ ScheduleIteration
  \/ LoanDataStore
  \/ MonthIteration
  \/ Respond
  \/ Tick

SpecCashflow == InitCashflow /\ [][NextCashflow]_vars

(***************************************************************************)
(* Cashflow claims                                                         *)
(***************************************************************************)
CashflowDone == pc = "done" /\ args.fn = "cashflow"

\* the calendar month k months after month m (1-based) of year y
CalendarMonthPlus(y, m, k) == <<y + ((m - 1 + k) \div 12), ((m - 1 + k) % 12) + 1>>

\* C2: the projection returns exactly N month records and record i (0-based)
\* covers the calendar month i months after the current month: N distinct,
\* consecutive months from the current one, also when today is the 29th, 30th or
\* 31st.  (Stated for a clock that stands still during the request.)
C2_ConsecutiveMonths ==
  (CashflowDone /\ ticks = 0) =>
    /\ Len(ret.data) = args.months
    /\ \A k \in 1..Len(ret.data) :
         ret.data[k].month = CalendarMonthPlus(getFullYear(now), getMonth(now) + 1, k - 1)

\* the loan of the book with the given stage id
LoanOf(stageId) == CHOOSE l \in {args.loans[k] : k \in 1..Len(args.loans)} : l.id = stageId

\* C3: when a scheduled borrower payment falls in the loan's final month, the
\* interest counted for that month is principal * ((annualRate / 12) / N) * D,
\* with N the number of days of that calendar month and D the day-of-month on
\* which the loan ends (capped at N); principal 100000, rate 0.12, ending on day
\* 10 of a 30-day month gives 333.33.
C3_FinalMonthProration ==
  CashflowDone =>
    \A k \in 1..Len(ret.data) : \A j \in 1..Len(ret.data[k].interestPayments) :
      LET entry == ret.data[k].interestPayments[j]
          loan == LoanOf(entry.stageId)
          N == DaysInMonthOf(ret.data[k].monthStart)
          D == IF getDate(loan.loan_repayment_date) < N
               THEN getDate(loan.loan_repayment_date) ELSE N
      IN entry.isProrated =>
           /\ entry.grossAmount =
                RMul(<<loan.loan_amount, 1>>,
                     Rat(loan.borrower_interest_rate * D, 12 * 10000 * N))
           /\ (/\ loan.loan_amount = 10000000
               /\ loan.borrower_interest_rate = 1200
               /\ loan.loan_repayment_date = Ymd(2024, 4, 10)
                 => RoundCents(entry.grossAmount) = 33333)

\* C4: whenever a loan's gross interest paid to date is zero, its net/gross,
\* tax/gross and fee/gross ratios are 0, so the loan's net, tax and fee amounts
\* for the month are 0, for every combination of totals that reaches the ratio
\* computation.
C4_ZeroGrossGivesZeroAmounts ==
  CashflowDone =>
    \A k \in 1..Len(ret.data) : \A j \in 1..Len(ret.data[k].interestPayments) :
      LET entry == ret.data[k].interestPayments[j]
      IN LoanOf(entry.stageId).total_interest_paid_gross = 0 =>
           /\ entry.netAmount[1] = 0
           /\ entry.taxAmount[1] = 0
           /\ entry.feeAmount[1] = 0

\* generatePaymentSchedule from candidate current on, with every clock read
\* returning the same instant
RECURSIVE FrozenSchedule(_, _, _, _)
FrozenSchedule(current, end, horizon, clock) ==
  IF ScheduleContinues(current, end, horizon)
  THEN (IF IncludePayment(current, clock) THEN <<current>> ELSE <<>>)
       \o FrozenSchedule(NextPaymentDate(current), end, horizon, clock)
  ELSE <<>>

\* the month records of the request computed with every clock read returning
\* the same instant
FrozenCashflow(a, clock) ==
  LET schedules ==
        [k \in 1..Len(a.loans) |->
           FrozenSchedule(
             FirstPaymentDate(calculateBasePaymentDate(a.loans[k].last_payment_date,
                                                       a.loans[k].loan_start_date, NULL),
                              a.loans[k].last_payment_date # NULL),
             a.loans[k].loan_repayment_date, AddMonths(clock, a.months), clock)]
  IN [k \in 1..a.months |->
        MonthData(a.loans, a.investorFunding, schedules, AddMonths(clock, k - 1))]

\* C10: within one request every use of the current date observes the same
\* value: if the clock advances while the request is computed, the result
\* equals the one computed with the date read at the start.
C10_SingleClockSnapshot ==
  CashflowDone => ret.data = FrozenCashflow(args, CallNow)

\* the name holds the letters g-o-o-d-l-a-n-d in a row, each in either case
NameHasGoodland(name) ==
  LET lower == <<"g", "o", "o", "d", "l", "a", "n", "d">>
      upper == <<"G", "O", "O", "D", "L", "A", "N", "D">>
  IN \E k \in 1..(Len(name) - 7) : \A j \in 1..8 : name[k + j - 1] \in {lower[j], upper[j]}

\* the funding is active in the month of the record
FundingActive(funding, rec) ==
  funding.investor_start_date <= rec.monthEnd /\ funding.investor_end_date >= rec.monthStart

\* investedAmount * annualRate / 12 summed over the fundings from k on that are
\* active in the month and whose name does not contain 'goodland'
RECURSIVE CountedPayouts(_, _, _)
CountedPayouts(fundings, k, rec) ==
  IF k > Len(fundings) THEN <<0, 1>>
  ELSE RAdd(IF FundingActive(fundings[k], rec) /\ ~NameHasGoodland(fundings[k].investor_name)
            THEN RMul(<<fundings[k].investment_amount, 1>>, Rat(fundings[k].investor_rate, 12 * 10000))
            ELSE <<0, 1>>,
            CountedPayouts(fundings, k + 1, rec))

\* C11: in every forecast month, a funding active in it whose investor name
\* contains 'goodland' in any letter case adds 0 to totalInvestorPayouts and is
\* listed exactly once in investorPayouts with excludedFromOutflows = true; any
\* other active funding (also one with no name) adds investedAmount *
\* annualRate / 12 and is listed with the flag false.
C11_GoodlandExcluded ==
  CashflowDone =>
    \A k \in 1..Len(ret.data) :
      LET rec == ret.data[k]
          fundings == args.investorFunding
      IN /\ \A f \in 1..Len(fundings) :
              FundingActive(fundings[f], rec) =>
                LET listed == {j \in 1..Len(rec.investorPayouts) :
                                 rec.investorPayouts[j].investorId = fundings[f].investor_id}
                IN /\ Cardinality(listed) = 1
                   /\ \A j \in listed :
                        /\ rec.investorPayouts[j].excludedFromOutflows
                             = NameHasGoodland(fundings[f].investor_name)
                        /\ rec.investorPayouts[j].amount
                             = RMul(<<fundings[f].investment_amount, 1>>,
                                    Rat(fundings[f].investor_rate, 12 * 10000))
         /\ rec.totalInvestorPayouts = RoundCents(CountedPayouts(fundings, 1, rec))

\* a month record lists an excluded and a counted payout
C11_Witness ==
  /\ CashflowDone
  /\ \E k \in 1..Len(ret.data) :
       /\ \E j \in 1..Len(ret.data[k].investorPayouts) :
            ret.data[k].investorPayouts[j].excludedFromOutflows
       /\ \E j \in 1..Len(ret.data[k].investorPayouts) :
            ~ret.data[k].investorPayouts[j].excludedFromOutflows
       /\ ret.data[k].totalInvestorPayouts > 0

\* C12: in every month record the emitted 2-decimal values satisfy
\* totalCashInflow = totalInterestReceivable + totalPrincipalDue and
\* netCashflow = totalCashInflow - totalInvestorPayouts.
C12_EmittedTotalsAddUp ==
  CashflowDone =>
    \A k \in 1..Len(ret.data) :
      /\ ret.data[k].totalCashInflow
           = ret.data[k].totalInterestReceivable + ret.data[k].totalPrincipalDue
      /\ ret.data[k].netCashflow
           = ret.data[k].totalCashInflow - ret.data[k].totalInvestorPayouts

(***************************************************************************)
(* Loan status: the normal rules and the extension override                *)
(***************************************************************************)
\* the status the normal rules name for a loan at the instant clock
ExpectedNormalStatus(start, end, days, clock) ==
  CASE start > clock /\ days <= 14 -> "starting_soon"
    [] start > clock /\ days > 14 -> "pending"
    [] start <= clock /\ end < clock -> "completed"
    [] start <= clock /\ end >= clock /\ days <= 0 -> "overdue"
    [] start <= clock /\ end >= clock /\ days \in 1..7 -> "due_soon"
    [] start <= clock /\ end >= clock /\ days \in 8..14 -> "due_this_week"
    [] start <= clock /\ end >= clock /\ days \in 15..30 -> "due_this_month"
    [] start <= clock /\ end >= clock /\ days > 30 -> "active"

\* the special-project override answers for the loan
CaughtByOverride(projectId, end, expiry, clock) ==
  projectId \in SpecialProjects /\ (end < clock \/ expiry < end)

\* C13: a loan not caught by the special-project override (any project id
\* outside {59, 55, 51}, unknown ids included, and special-project loans with
\* end >= now and expiry >= end) gets 'starting_soon' / 'pending' before its
\* start, else 'completed' after its end, else the daysToMaturity class: one of
\* these values for every input.  (The clock stands still during the call.)
C13_NormalRules ==
  (/\ LoanStatusDone
   /\ ticks = 0
   /\ ~CaughtByOverride(args.projectId, args.loanEndDate, args.expiryDate, now))
    => ret = ExpectedNormalStatus(args.loanStartDate, args.loanEndDate,
                                  args.daysToMaturity, now)

\* a started special-project loan the override lets through, due in 7 days
C13_Witness ==
  /\ LoanStatusDone
  /\ ticks = 0
  /\ args.projectId = 59
  /\ args.loanStartDate <= now
  /\ args.loanEndDate >= now
  /\ args.expiryDate >= args.loanEndDate
  /\ args.daysToMaturity = 7
  /\ ret = "due_soon"

\* C14: a special-project loan whose repayment date is not before now gets
\* 'overdue-extension' exactly when expiry < repayment date, also when it has
\* not started yet, and otherwise what the normal rules give.
C14_ExtensionOverride ==
  (/\ LoanStatusDone
   /\ ticks = 0
   /\ args.projectId \in SpecialProjects
   /\ args.loanEndDate >= now)
    => /\ (ret = "overdue-extension") <=> (args.expiryDate < args.loanEndDate)
       /\ args.expiryDate >= args.loanEndDate
            => ret = ExpectedNormalStatus(args.loanStartDate, args.loanEndDate,
                                          args.daysToMaturity, now)

\* a special-project loan that has not started, with expiry before repayment
C14_Witness ==
  /\ LoanStatusDone
  /\ ticks = 0
  /\ args.projectId = 51
  /\ args.loanStartDate > now
  /\ args.loanEndDate >= now
  /\ args.expiryDate < args.loanEndDate
  /\ ret = "overdue-extension"

(***************************************************************************)
(* Cashflow: which loans contribute interest and principal                 *)
(***************************************************************************)
\* the entries of the list that belong to the stage
EntriesOf(list, stageId) == {j \in 1..Len(list) : list[j].stageId = stageId}

RECURSIVE PrincipalEndingIn(_, _, _)
PrincipalEndingIn(loans, l, rec) ==
  IF l > Len(loans) THEN 0
  ELSE (IF loans[l].loan_repayment_date >= rec.monthStart
           /\ loans[l].loan_repayment_date <= rec.monthEnd
        THEN loans[l].loan_amount ELSE 0)
       + PrincipalEndingIn(loans, l + 1, rec)

\* C16: a loan's full principal is added to a month's totalPrincipalDue, with
\* one loanMaturies entry, if and only if monthStart <= loanEnd <= monthEnd,
\* whether or not the borrower has paid interest and whether or not a
\* scheduled payment falls in the month.
C16_PrincipalDue ==
  CashflowDone =>
    \A k \in 1..Len(ret.data) :
      LET rec == ret.data[k]
      IN /\ \A l \in 1..Len(args.loans) :
              LET loan == args.loans[l]
                  entries == EntriesOf(rec.loanMaturies, loan.id)
                  ends == /\ loan.loan_repayment_date >= rec.monthStart
                          /\ loan.loan_repayment_date <= rec.monthEnd
              IN /\ Cardinality(entries) = (IF ends THEN 1 ELSE 0)
                 /\ \A j \in entries : rec.loanMaturies[j].amount = loan.loan_amount
         /\ rec.totalPrincipalDue = PrincipalEndingIn(args.loans, 1, rec)

\* a loan whose borrower has paid nothing matures in a month without any
\* interest entry
C16_Witness ==
  /\ CashflowDone
  /\ \E k \in 1..Len(ret.data) :
       /\ ret.data[k].interestPayments = <<>>
       /\ Len(ret.data[k].loanMaturies) = 1
       /\ LoanOf(ret.data[k].loanMaturies[1].stageId).total_interest_paid_net = 0
       /\ ret.data[k].totalPrincipalDue = 10000000

(***************************************************************************)
(* Specification of calculateBasePaymentDate: one call on dates around     *)
(* Today, the last-payment and transaction dates possibly absent.          *)
(***************************************************************************)
InitBasePayment ==
  /\ pc = "call"
  /\ now \in ClockValues
  /\ ticks = 0
  /\ args \in [fn : {"calculateBasePaymentDate"},
               lastPaymentDate : StatusDates \cup {NULL},
               startDate : StatusDates,
               transactionDate : StatusDates \cup {NULL}]
  /\ ret = NULL
  /\ ScheduleIdle
  /\ CashflowIdle
  /\ RemindersIdle

CallBasePaymentDate ==
  /\ pc = "call"
  /\ args.fn = "calculateBasePaymentDate"
  /\ ret' = calculateBasePaymentDate(args.lastPaymentDate, args.startDate,
                                     args.transactionDate)
  /\ pc' = "done"
  /\ UNCHANGED <<now, ticks, args, schedVars, flowVars, remVars>>

NextBasePayment == CallBasePaymentDate

SpecBasePayment == InitBasePayment /\ [][NextBasePayment]_vars

BasePaymentDone == pc = "done" /\ args.fn = "calculateBasePaymentDate"

\* C17: calculateBasePaymentDate returns the last-payment date whenever one
\* exists, whatever the other two dates are; otherwise the transaction date if
\* it exists and is strictly later than the start date, and the start date in
\* every other case.
C17_BasePaymentDate ==
  BasePaymentDone =>
    /\ args.lastPaymentDate # NULL => ret = args.lastPaymentDate
    /\ (/\ args.lastPaymentDate = NULL
        /\ args.transactionDate # NULL
        /\ args.transactionDate > args.startDate) => ret = args.transactionDate
    /\ (/\ args.lastPaymentDate = NULL
        /\ (args.transactionDate = NULL \/ args.transactionDate <= args.startDate))
         => ret = args.startDate

\* a last payment older than both other dates is still the base
C17_Witness ==
  /\ BasePaymentDone
  /\ args.lastPaymentDate # NULL
  /\ args.transactionDate > args.startDate
  /\ args.startDate > args.lastPaymentDate
  /\ ret = args.lastPaymentDate

(***************************************************************************)
(* Schedule: termination                                                   *)
(***************************************************************************)
ScheduleDone == pc = "done" /\ args.fn = "generatePaymentSchedule"

\* a step of the loop (the clock standing still, the loop not left) moves the
\* candidate date strictly forward
CandidateMovesForward ==
  (pc = "schedule" /\ pc' = "schedule" /\ now' = now)
    => currentPaymentDate' > currentPaymentDate

\* the anchor is missing, or already after endDate or horizonEnd
NothingToSchedule ==
  \/ args.basePaymentDate = NULL
  \/ args.basePaymentDate > schedEndDate
  \/ args.basePaymentDate > schedPredictionEndDate

\* C18: generatePaymentSchedule terminates for every anchor, endDate,
\* horizonEnd and flag: each loop iteration moves the candidate date strictly
\* forward, the loop exits after finitely many steps, and the emitted sequence
\* is empty when the anchor is missing or already after endDate or horizonEnd.
C18_ScheduleTerminates ==
  /\ <>ScheduleDone
  /\ [][CandidateMovesForward]_vars
  /\ [](ScheduleDone /\ NothingToSchedule => ret = <<>>)

\* a call that went round the loop at least three times and returned
C18_Witness ==
  /\ ScheduleDone
  /\ Len(ret) >= 3

(***************************************************************************)
(* Specification of calculateUpfrontInterest.                              *)
(***************************************************************************)
\* the dates of the calls: the first days of the period window
UpfrontDates == {AddDays(PeriodWindowStart, k) : k \in 0..(UpfrontWindowDays - 1)}

InitUpfront ==
  /\ pc = "call"
  /\ now = PeriodWindowStart
  /\ ticks = 0
  /\ args \in [fn : {"calculateUpfrontInterest"},
               loanAmount : {0, 5000000, 10000000},
               borrowerRate : {0, 900, 1200},
               startDate : UpfrontDates,
               endDate : UpfrontDates]
  /\ ret = NULL
  /\ ScheduleIdle
  /\ CashflowIdle
  /\ RemindersIdle

CallUpfrontInterest ==
  /\ pc = "call"
  /\ args.fn = "calculateUpfrontInterest"
  /\ ret' = calculateUpfrontInterest(args.loanAmount, args.borrowerRate,
                                     args.startDate, args.endDate)
  /\ pc' = "done"
  /\ UNCHANGED <<now, ticks, args, schedVars, flowVars, remVars>>

NextUpfront == CallUpfrontInterest

SpecUpfront == InitUpfront /\ [][NextUpfront]_vars

UpfrontDone == pc = "done" /\ args.fn = "calculateUpfrontInterest"

\* C19: for every principal >= 0, annualRate >= 0 and every pair of dates,
\* calculateUpfrontInterest returns fullMonthsInterest >= 0 and
\* partialMonthInterest >= 0 with totalInterest exactly their sum, and
\* partialMonthInterest is 0 whenever remainingDays <= 0.
C19_UpfrontInterestParts ==
  UpfrontDone =>
    /\ ret.fullMonthsInterest[1] >= 0 /\ ret.fullMonthsInterest[2] > 0
    /\ ret.partialMonthInterest[1] >= 0 /\ ret.partialMonthInterest[2] > 0
    /\ ret.totalInterest[1] * ret.fullMonthsInterest[2] * ret.partialMonthInterest[2]
         = ret.totalInterest[2]
             * (ret.fullMonthsInterest[1] * ret.partialMonthInterest[2]
                + ret.partialMonthInterest[1] * ret.fullMonthsInterest[2])
    /\ ret.period.remainingDays <= 0 => ret.partialMonthInterest[1] = 0

\* an end date before the start date, on a loan with principal and rate: the
\* remaining days are negative and no partial month is charged
C19_Witness ==
  /\ UpfrontDone
  /\ args.loanAmount > 0
  /\ args.borrowerRate > 0
  /\ ret.period.remainingDays < 0
  /\ ret.partialMonthInterest[1] = 0
  /\ ret.totalInterest[1] = 0

(***************************************************************************)
(* Period: the remainder after the month walk                              *)
(***************************************************************************)
\* the date n steps of setMonth(getMonth() + 1) after start
RECURSIVE WalkBoundary(_, _)
WalkBoundary(start, n) == IF n = 0 THEN start ELSE AddMonths(WalkBoundary(start, n - 1), 1)

\* C20: for start < end, remainingDays is the number of days from the last
\* whole-month boundary reached by the month walk to end, daysInLastMonth the
\* number of days of the calendar month containing that boundary, and
\* totalDays the number of days from start to end; 2024-01-15 to 2024-04-20
\* gives fullMonths 3, remainingDays 5, daysInLastMonth 30.
C20_PeriodRemainder ==
  (PeriodDone /\ args.startDate < args.endDate) =>
    LET boundary == WalkBoundary(args.startDate, ret.fullMonths)
    IN /\ boundary <= args.endDate
       /\ AddMonths(boundary, 1) > args.endDate
       /\ ret.remainingDays * TicksPerDay = args.endDate - boundary
       /\ ret.daysInLastMonth = DaysInMonth(getFullYear(boundary), getMonth(boundary))
       /\ ret.totalDays * TicksPerDay = args.endDate - args.startDate
       /\ (args.startDate = Ymd(2024, 1, 15) /\ args.endDate = Ymd(2024, 4, 20))
            => /\ ret.fullMonths = 3
               /\ ret.remainingDays = 5
               /\ ret.daysInLastMonth = 30

\* a period whose last boundary lies in the month before the end date's
C20_Witness ==
  /\ PeriodDone
  /\ args.startDate = Ymd(2024, 1, 20)
  /\ args.endDate = Ymd(2024, 3, 5)
  /\ ret.fullMonths = 1
  /\ ret.remainingDays = 14
  /\ ret.daysInLastMonth = 29

(***************************************************************************)
(* Schedule: the chain of candidates                                       *)
(***************************************************************************)
\* the day before the same day-of-month of the next calendar month, as one
\* calendar date (a day number past the month's end runs into the next month)
OneMonthLessADay(t) ==
  NewDate(getFullYear(t), getMonth(t) + 1, getDate(t) - 1) + TimeWithinDay(t)

\* the function is entered: the first candidate is set
FirstCandidateSet ==
  (pc = "call" /\ pc' = "schedule") =>
    currentPaymentDate' = IF args.hasLastPayment
                          THEN OneMonthLessADay(args.basePaymentDate)
                          ELSE args.basePaymentDate

\* one round of the loop: the candidate is kept or dropped, and the next one
\* is the same in both cases
CandidateChained ==
  (pc = "schedule" /\ pc' = "schedule" /\ now' = now) =>
    /\ currentPaymentDate' = OneMonthLessADay(currentPaymentDate)
    /\ payments' = IF currentPaymentDate >= now
                   THEN Append(payments, currentPaymentDate)
                   ELSE payments

\* C21: with hasPriorPayment the anchor itself is never a candidate: the first
\* candidate is the anchor plus one month minus one day; without it the first
\* candidate is the anchor.  Every later candidate is the previous one plus one
\* month minus one day, and candidates before the current date are dropped
\* without changing the later ones.
C21_CandidateChain ==
  /\ [][FirstCandidateSet]_vars
  /\ [][CandidateChained]_vars
  /\ [](args.hasLastPayment =>
          \A k \in 1..Len(payments) : payments[k] # args.basePaymentDate)

\* a call with a prior payment whose first candidate lay in the past and was
\* dropped, and which emitted later candidates
C21_Witness ==
  /\ ScheduleDone
  /\ args.hasLastPayment
  /\ Len(ret) >= 2
  /\ ret[1] > OneMonthLessADay(args.basePaymentDate)

(***************************************************************************)
(* Investor payment reminders: GET /reminders/investors and                *)
(* POST /reminders/investors/mark-status (routes/reminders), and the       *)
(* handlers of InvestorRemindersTab.  A row of investor_payment_reminders  *)
(* is a record whose scheduled_date is a DATE (a day number) and whose     *)
(* marked_paid_at and marked_ignored_at are DATETIMEs or NULL.  A          *)
(* reminderKey "stage|investor|yyyy-mm-dd" is the triple of its parts.     *)
(***************************************************************************)
\* paymentDate.toISOString().slice(0, 10): the calendar day of a timestamp
IsoDate(t) == Day(t)

\* new Date(r.scheduled_date): midnight of a DATE
DateOfIso(day) == day * TicksPerDay

reminderKey(stageId, investorId, paymentDate) == <<stageId, investorId, IsoDate(paymentDate)>>

\* the row's unique key (stage_id, investor_id, scheduled_date)
RowKey(r) == <<r.stage_id, r.investor_id, r.scheduled_date>>

\* parseInt(req.query.days) || 30
daysAheadOf(days) == IF days = NULL \/ days = 0 THEN 30 ELSE days

\* DATE_SUB(CURDATE(), INTERVAL 3 YEAR): same month and day three years back,
\* the day clamped to the length of that month
ThreeYearsBack(clock) ==
  LET y == getFullYear(clock) - 3
      m == getMonth(clock)
      d == getDate(clock)
  IN Day(NewDate(y, m, IF d > DaysInMonth(y, m) THEN DaysInMonth(y, m) ELSE d))

\* DATEDIFF(CURDATE(), marked_at)
DATEDIFF(clock, markedAt) == Day(clock) - Day(markedAt)

\* the paymentReminders query
paymentReminders(rows, clock, daysAhead) ==
  {r \in rows :
     /\ r.scheduled_date >= ThreeYearsBack(clock)
     /\ r.scheduled_date <= Day(clock) + daysAhead
     /\ \/ (~r.is_paid /\ ~r.is_ignored)
        \/ (r.is_paid /\ DATEDIFF(clock, r.marked_paid_at) <= 15)
        \/ (r.is_ignored /\ DATEDIFF(clock, r.marked_ignored_at) <= 15)}

\* the WHERE clause shared by the activeLoans and investorFunding queries
StageListed(stage, clock) ==
  /\ stage.status \in {"operating", "performing"}
  /\ (stage.project_id \in SpecialProjects
        \/ stage.loan_repayment_date >= DateOfIso(Day(clock)))

\* the while loop of generatePaymentSchedule run at one reading of the clock
RECURSIVE ScheduleLoop(_, _, _, _, _)
ScheduleLoop(current, endDate, predictionEndDate, clock, acc) ==
  IF ~ScheduleContinues(current, endDate, predictionEndDate) THEN acc
  ELSE ScheduleLoop(NextPaymentDate(current), endDate, predictionEndDate, clock,
                    IF IncludePayment(current, clock) THEN Append(acc, current) ELSE acc)

generatePaymentSchedule(basePaymentDate, endDate, predictionEndDate, hasLastPayment, clock) ==
  IF basePaymentDate = NULL THEN <<>>
  ELSE ScheduleLoop(FirstPaymentDate(basePaymentDate, hasLastPayment),
                    endDate, predictionEndDate, clock, <<>>)

\* the filter "payments due in the next X days"
RECURSIVE upcomingPayments(_, _, _)
upcomingPayments(schedule, clock, daysAhead) ==
  IF schedule = <<>> THEN <<>>
  ELSE LET daysUntilPayment == CeilDays(Head(schedule), clock)
           rest == upcomingPayments(Tail(schedule), clock, daysAhead)
       IN IF daysUntilPayment >= 0 /\ daysUntilPayment <= daysAhead
          THEN <<Head(schedule)>> \o rest
          ELSE rest

\* paymentReminders.find(...): the selected rows of the funding that lie less
\* than a day from the payment date
reminderStatus(selected, investor, paymentDate) ==
  {r \in selected :
     /\ r.stage_id = investor.stage_id
     /\ r.investor_id = investor.investor_id
     /\ LET diff == DateOfIso(r.scheduled_date) - paymentDate
        IN (IF diff < 0 THEN 0 - diff ELSE diff) < TicksPerDay}

\* the entry pushed for one upcoming payment of one funding
PaymentEntry(selected, investor, paymentDate, clock) ==
  LET status == reminderStatus(selected, investor, paymentDate)
      found == status # {}
      row == CHOOSE r \in status : TRUE
      daysUntilPayment == CeilDays(paymentDate, clock)
  IN [investorId |-> investor.investor_id,
      scheduledDate |-> IsoDate(paymentDate),
      daysUntilPayment |-> daysUntilPayment,
      urgencyLevel |-> IF daysUntilPayment <= 7 THEN "urgent" ELSE "upcoming",
      isPaid |-> IF found THEN row.is_paid ELSE FALSE,
      isIgnored |-> IF found THEN row.is_ignored ELSE FALSE,
      markedPaidAt |-> IF found THEN row.marked_paid_at ELSE NULL,
      markedIgnoredAt |-> IF found THEN row.marked_ignored_at ELSE NULL,
      reminderKey |-> reminderKey(investor.stage_id, investor.investor_id, paymentDate)]

\* Array.prototype.sort by daysUntilPayment (stable): insertion of one entry
RECURSIVE InsertByDays(_, _)
InsertByDays(sorted, e) ==
  IF sorted = <<>> THEN <<e>>
  ELSE IF e.daysUntilPayment < Head(sorted).daysUntilPayment THEN <<e>> \o sorted
  ELSE <<Head(sorted)>> \o InsertByDays(Tail(sorted), e)

RECURSIVE SortByDays(_)
SortByDays(entries) ==
  IF entries = <<>> THEN <<>>
  ELSE InsertByDays(SortByDays(SubSeq(entries, 1, Len(entries) - 1)), entries[Len(entries)])

\* the entries one funding contributes (the body of the for loop)
InvestorPayments(selected, investor, clock, daysAhead) ==
  LET basePaymentDate == calculateBasePaymentDate(investor.last_payment_date,
                                                  investor.investor_start_date,
                                                  investor.transcation_date)
      paymentSchedule == generatePaymentSchedule(basePaymentDate, investor.investor_end_date,
                                                 AddDays(clock, daysAhead),
                                                 investor.last_payment_date # NULL, clock)
      upcoming == upcomingPayments(paymentSchedule, clock, daysAhead)
  IN [k \in 1..Len(upcoming) |-> PaymentEntry(selected, investor, upcoming[k], clock)]

\* the fundings the investorFunding query returns, in table order
RECURSIVE investorFunding(_, _, _)
investorFunding(fundings, stage, clock) ==
  IF fundings = <<>> THEN <<>>
  ELSE LET inf == Head(fundings)
           rest == investorFunding(Tail(fundings), stage, clock)
       IN IF inf.stage_id = stage.stage_id /\ StageListed(stage, clock) /\ inf.investor_rate > 0
          THEN <<inf>> \o rest
          ELSE rest

RECURSIVE AllInvestorPayments(_, _, _, _)
AllInvestorPayments(selected, investors, clock, daysAhead) ==
  IF investors = <<>> THEN <<>>
  ELSE InvestorPayments(selected, Head(investors), clock, daysAhead)
         \o AllInvestorPayments(selected, Tail(investors), clock, daysAhead)

\* the response of GET /reminders/investors for a book of one stage: the
\* upcomingPayments of its project, sorted (no project when there are none)
InvestorReminders(rows, book, clock, days) ==
  LET daysAhead == daysAheadOf(days)
      selected == paymentReminders(rows, clock, daysAhead)
  IN SortByDays(AllInvestorPayments(selected,
                                    investorFunding(book.fundings, book.stage, clock),
                                    clock, daysAhead))

\* the row written by a mark-status request handled at clock
ReminderRow(q, clock) ==
  [stage_id |-> q.reminderKey[1],
   investor_id |-> q.reminderKey[2],
   scheduled_date |-> q.reminderKey[3],
   is_paid |-> q.isPaid,
   is_ignored |-> q.isIgnored,
   marked_paid_at |-> IF q.isPaid THEN clock ELSE NULL,
   marked_ignored_at |-> IF q.isIgnored THEN clock ELSE NULL]

\* a plain INSERT, the unique key not enforced
UpsertInsertOnly(rows, row) == rows \cup {row}

\* INSERT ... ON DUPLICATE KEY UPDATE under UNIQUE KEY unique_payment
Upsert(rows, row) == {r \in rows : RowKey(r) # RowKey(row)} \cup {row}

\* the mutation is pending (markPaymentMutation.isLoading)
isLoading == requests # <<>>

ClosedDialog == [open |-> FALSE, reminderKey |-> <<>>]

\* a request as markPaymentMutation.mutate sends it
MarkRequest(key, isPaid, isIgnored) ==
  [reminderKey |-> key, isPaid |-> isPaid, isIgnored |-> isIgnored,
   done |-> FALSE, markedAt |-> NULL]

\* the sequence without its k-th element
RemoveAt(seq, k) == SubSeq(seq, 1, k - 1) \o SubSeq(seq, k + 1, Len(seq))

\* GET /reminders/investors, the query of useQuery
GetInvestorReminders(days) ==
  /\ pc = "reminders"
  /\ view' = InvestorReminders(store, args, now, days)
  /\ UNCHANGED <<pc, now, ticks, args, ret, schedVars, flowVars, store, noteDialog, requests>>

\* POST /reminders/investors/mark-status handling the k-th request in flight
MarkStatus(k) ==
  /\ pc = "reminders"
  /\ k \in 1..Len(requests)
  /\ ~requests[k].done
  /\ store' = Upsert(store, ReminderRow(requests[k], now))
  /\ requests' = [requests EXCEPT ![k].done = TRUE,
                                  ![k].markedAt = IF requests[k].isPaid \/ requests[k].isIgnored
                                                  THEN now ELSE NULL]
  /\ UNCHANGED <<pc, now, ticks, args, ret, schedVars, flowVars, view, noteDialog>>

\* onSuccess of markPaymentMutation: the response has arrived
onSuccess(k) ==
  /\ pc = "reminders"
  /\ k \in 1..Len(requests)
  /\ requests[k].done
  /\ requests' = RemoveAt(requests, k)
  /\ noteDialog' = ClosedDialog
  /\ UNCHANGED <<pc, now, ticks, args, ret, schedVars, flowVars, store, view>>

\* the paid checkbox of the k-th payment shown (enabled unless a mutation is
\* pending or the payment is ignored; the note dialog is modal)
handlePaymentToggle(k) ==
  /\ pc = "reminders"
  /\ k \in 1..Len(view)
  /\ ~isLoading /\ ~view[k].isIgnored /\ ~noteDialog.open
  /\ IF ~view[k].isPaid
     THEN /\ noteDialog' = [open |-> TRUE, reminderKey |-> view[k].reminderKey]
          /\ UNCHANGED requests
     ELSE /\ requests' = Append(requests, MarkRequest(view[k].reminderKey, FALSE, FALSE))
          /\ UNCHANGED noteDialog
  /\ UNCHANGED <<pc, now, ticks, args, ret, schedVars, flowVars, store, view>>

\* the ignore checkbox of the k-th payment shown (enabled unless a mutation is
\* pending or the payment is paid)
handleIgnoreToggle(k) ==
  /\ pc = "reminders"
  /\ k \in 1..Len(view)
  /\ ~isLoading /\ ~view[k].isPaid /\ ~noteDialog.open
  /\ requests' = Append(requests, MarkRequest(view[k].reminderKey, FALSE, ~view[k].isIgnored))
  /\ UNCHANGED <<pc, now, ticks, args, ret, schedVars, flowVars, store, view, noteDialog>>

\* the confirming request with the ignore flag set as well
ConfirmPaymentRequestBoth(key) == MarkRequest(key, TRUE, TRUE)

\* the request handleConfirmPayment sends
ConfirmPaymentRequest(key) == MarkRequest(key, TRUE, FALSE)

\* "Confirm Payment" in the note dialog
handleConfirmPayment ==
  /\ pc = "reminders"
  /\ noteDialog.open
  /\ ~isLoading
  /\ requests' = Append(requests, ConfirmPaymentRequest(noteDialog.reminderKey))
  /\ UNCHANGED <<pc, now, ticks, args, ret, schedVars, flowVars, store, view, noteDialog>>

\* "Cancel" in the note dialog
CancelDialog ==
  /\ pc = "reminders"
  /\ noteDialog.open
  /\ ~isLoading
  /\ noteDialog' = ClosedDialog
  /\ UNCHANGED <<pc, now, ticks, args, ret, schedVars, flowVars, store, view, requests>>

RemindersStart == Ymd(2024, 3, 1)

\* a day passes between two requests
DayPasses ==
  /\ pc = "reminders"
  /\ Day(now) < Day(RemindersStart) + MaxReminderDays
  /\ now' = AddDays(now, 1)
  /\ UNCHANGED <<pc, ticks, args, ret, schedVars, flowVars, remVars>>

\* the stage of the book: repaid in summer, or within the days observed
ReminderStages ==
  {[stage_id |-> 1, project_id |-> 7, status |-> "operating", loan_repayment_date |-> r] :
     r \in {Ymd(2024, 6, 30), Ymd(2024, 3, 10)}}

\* its fundings: one without an income rate, and one never paid that runs from
\* 2024-02-20 (payments fall due on 2024-03-19, 2024-04-18, ...)
ReminderFunding(investorId, investorRate) ==
  [stage_id |-> 1, investor_id |-> investorId, investor_rate |-> investorRate,
   investor_start_date |-> Ymd(2024, 2, 20), investor_end_date |-> Ymd(2024, 6, 30),
   transcation_date |-> NULL, last_payment_date |-> NULL]

ReminderBooks ==
  {[fn |-> "reminders", stage |-> st,
    fundings |-> <<ReminderFunding(8, 0), ReminderFunding(7, 960)>>] :
     st \in ReminderStages}

\* the days parameter of the query: absent, or a week
RequestedDays == {NULL, 7}

InitReminders ==
  /\ pc = "reminders"
  /\ args \in ReminderBooks
  /\ now = RemindersStart + 1
  /\ ticks = 0
  /\ ret = <<>>
  /\ ScheduleIdle
  /\ CashflowIdle
  /\ RemindersIdle

NextReminders ==
  \/ \E days \in RequestedDays : GetInvestorReminders(days)
  \/ \E k \in 1..Len(view) : handlePaymentToggle(k)
  \/ \E k \in 1..Len(view) : handleIgnoreToggle(k)
  \/ handleConfirmPayment
  \/ CancelDialog
  \/ \E k \in 1..Len(requests) : MarkStatus(k)
  \/ \E k \in 1..Len(requests) : onSuccess(k)
  \/ DayPasses

SpecReminders == InitReminders /\ [][NextReminders]_vars

\* the entries of a response that carry the key of a stored row
ListedFor(response, r) ==
  {k \in 1..Len(response) : response[k].reminderKey = RowKey(r)}

\* a stored row marked paid or ignored is, in a response served at clock, listed
\* with its flags up to 15 days after the marking and not listed after that
MarkedShownThenHidden(response, r, clock) ==
  /\ r.is_paid =>
       IF DATEDIFF(clock, r.marked_paid_at) <= 15
       THEN \A k \in ListedFor(response, r) : response[k].isPaid
       ELSE ListedFor(response, r) = {}
  /\ r.is_ignored =>
       IF DATEDIFF(clock, r.marked_ignored_at) <= 15
       THEN \A k \in ListedFor(response, r) : response[k].isIgnored
       ELSE ListedFor(response, r) = {}

\* C22: once a payment has been marked paid (or ignored) and not unmarked, every
\* later GET /reminders/investors response lists it with isPaid (isIgnored) true
\* for 15 days after the marking and does not list it after that: it is never
\* listed again as an unpaid, active reminder.
C22_MarkedNeverListedUnpaid ==
  [][\A days \in RequestedDays :
       GetInvestorReminders(days) =>
         \A r \in store : MarkedShownThenHidden(view', r, now)]_vars

\* C27: along any sequence of actions of the reminders tab no mark-status
\* request carries isPaid and isIgnored both true, and no stored reminder is
\* both paid and ignored.
C27_NeverPaidAndIgnored ==
  /\ \A k \in 1..Len(requests) : ~(requests[k].isPaid /\ requests[k].isIgnored)
  /\ \A r \in store : ~(r.is_paid /\ r.is_ignored)

\* a reminder stored as paid for which the tab, still showing it unpaid, has
\* sent an ignore request
C27_Witness ==
  \E r \in store :
    /\ r.is_paid
    /\ \E k \in 1..Len(requests) :
         requests[k].reminderKey = RowKey(r) /\ requests[k].isIgnored

(***************************************************************************)
(* POST /reminders/investors/mark-status called by any client: any key of  *)
(* a small set and any pair of flags, several requests in flight, handled  *)
(* in any order.                                                           *)
(***************************************************************************)
MarkKeys == {<<1, 7, IsoDate(Ymd(2024, 3, 19))>>, <<1, 8, IsoDate(Ymd(2024, 3, 19))>>}

\* a client sends a mark-status request
PostMarkStatus(key, isPaid, isIgnored) ==
  /\ pc = "reminders"
  /\ Len(requests) < MaxInFlight
  /\ requests' = Append(requests, MarkRequest(key, isPaid, isIgnored))
  /\ UNCHANGED <<pc, now, ticks, args, ret, schedVars, flowVars, store, view, noteDialog>>

\* the requests arrive on the last two days observed
InitMarkStatus ==
  /\ pc = "reminders"
  /\ args \in ReminderBooks
  /\ now = AddDays(RemindersStart, MaxReminderDays - 1) + 1
  /\ ticks = 0
  /\ ret = <<>>
  /\ ScheduleIdle
  /\ CashflowIdle
  /\ RemindersIdle

NextMarkStatus ==
  \/ \E key \in MarkKeys, isPaid \in BOOLEAN, isIgnored \in BOOLEAN :
       PostMarkStatus(key, isPaid, isIgnored)
  \/ \E k \in 1..Len(requests) : MarkStatus(k)
  \/ \E k \in 1..Len(requests) : onSuccess(k)
  \/ DayPasses

SpecMarkStatus == InitMarkStatus /\ [][NextMarkStatus]_vars

\* the rows stored under the key of a request
RowsOf(rows, q) == {r \in rows : RowKey(r) = q.reminderKey}

\* the store right after request q was handled at clock: one row under the key,
\* with the flags of q and a timestamp exactly for each flag set
StoredAs(rows, q, clock) ==
  /\ Cardinality(RowsOf(rows, q)) = 1
  /\ \A r \in RowsOf(rows, q) :
       /\ r.is_paid = q.isPaid /\ r.is_ignored = q.isIgnored
       /\ r.marked_paid_at = (IF q.isPaid THEN clock ELSE NULL)
       /\ r.marked_ignored_at = (IF q.isIgnored THEN clock ELSE NULL)

\* C26: after any sequence of mark-status requests the store holds at most one
\* row per (stage_id, investor_id, scheduled_date); handling a request leaves
\* under its key exactly the row of that request and leaves the rows of all other
\* keys as they were, so the row of a key is that of the most recent request for
\* it; marked_paid_at is non-null exactly when is_paid and marked_ignored_at
\* exactly when is_ignored.
C26_UpsertPerKey ==
  /\ [](\A r1, r2 \in store : RowKey(r1) = RowKey(r2) => r1 = r2)
  /\ [](\A r \in store : /\ (r.marked_paid_at # NULL) = r.is_paid
                         /\ (r.marked_ignored_at # NULL) = r.is_ignored)
  /\ [][\A k \in 1..Len(requests) :
          MarkStatus(k) =>
            /\ StoredAs(store', requests[k], now)
            /\ {r \in store' : RowKey(r) # requests[k].reminderKey}
                 = {r \in store : RowKey(r) # requests[k].reminderKey}]_vars

\* a key marked paid and then returned to active by a later request, while the
\* row of another key stays marked
C26_Witness ==
  /\ \E r \in store : ~r.is_paid /\ ~r.is_ignored
  /\ \E r \in store : r.is_paid /\ r.is_ignored
  /\ \E k \in 1..Len(requests) :
       /\ requests[k].done /\ requests[k].isPaid
       /\ \E r \in store : RowKey(r) = requests[k].reminderKey /\ ~r.is_paid

(***************************************************************************)
(* GET /reminders: the borrower reminders (upfront interest and principal) *)
(* of the active loans.  currentDate is read once (line 37); getLoanStatus *)
(* reads the clock again, up to three times.                               *)
(***************************************************************************)
\* lines 82-93: urgency and status of a principal reminder
PrincipalUrgency(loanStatus, daysToPrincipal) ==
  IF loanStatus \in {"overdue", "overdue-extension"}
  THEN [urgencyLevel |-> "urgent", status |-> loanStatus]
  ELSE IF daysToPrincipal <= 7 THEN [urgencyLevel |-> "urgent", status |-> "upcoming"]
  ELSE IF daysToPrincipal <= 0 THEN [urgencyLevel |-> "urgent", status |-> "overdue"]
  ELSE [urgencyLevel |-> "upcoming", status |-> "upcoming"]

\* lines 44-66: the upfront-interest reminder of a loan, if any
UpfrontReminders(loan, currentDate) ==
  LET daysToStart == CeilDays(loan.loan_start_date, currentDate)
  IN IF daysToStart <= 14 /\ daysToStart >= 0
     THEN <<[id |-> loan.id,
             expectedInterest |->
               RoundCents(calculateUpfrontInterest(loan.loan_amount, loan.borrower_interest_rate,
                                                   loan.loan_start_date,
                                                   loan.loan_repayment_date).totalInterest),
             dueDate |-> IsoDate(loan.loan_start_date),
             daysUntilDue |-> daysToStart,
             urgencyLevel |-> IF daysToStart <= 7 THEN "urgent" ELSE "upcoming",
             reminderType |-> "upfront_interest",
             status |-> "upcoming"]>>
     ELSE <<>>

\* lines 69-107: the principal reminder of a loan, if any
PrincipalReminders(loan, currentDate, read1, read2, read3) ==
  LET daysToPrincipal == CeilDays(loan.loan_repayment_date, currentDate)
      loanStatus == getLoanStatus(loan.project_id, loan.loan_start_date,
                                  loan.loan_repayment_date, daysToPrincipal,
                                  loan.loan_expiry_date, read1, read2, read3)
      urgency == PrincipalUrgency(loanStatus, daysToPrincipal)
  IN IF daysToPrincipal <= 14 /\ daysToPrincipal >= -365
     THEN <<[id |-> loan.id,
             dueDate |-> IsoDate(loan.loan_repayment_date),
             daysUntilDue |-> daysToPrincipal,
             urgencyLevel |-> urgency.urgencyLevel,
             reminderType |-> "principal_payment",
             status |-> urgency.status,
             loanStatus |-> loanStatus,
             isSpecialProject |-> loan.project_id \in SpecialProjects]>>
     ELSE <<>>

\* reminders.sort by dueDate (stable): insertion of one reminder
RECURSIVE InsertByDueDate(_, _)
InsertByDueDate(sorted, e) ==
  IF sorted = <<>> THEN <<e>>
  ELSE IF e.dueDate < Head(sorted).dueDate THEN <<e>> \o sorted
  ELSE <<Head(sorted)>> \o InsertByDueDate(Tail(sorted), e)

RECURSIVE SortByDueDate(_)
SortByDueDate(entries) ==
  IF entries = <<>> THEN <<>>
  ELSE InsertByDueDate(SortByDueDate(SubSeq(entries, 1, Len(entries) - 1)),
                       entries[Len(entries)])

\* reminders.filter(r => r[field] === value).length
CountWith(reminders, field, value) ==
  Cardinality({k \in 1..Len(reminders) : reminders[k][field] = value})

\* lines 110-127: the sorted reminders and their summary
RemindersResponse(found) ==
  LET reminders == SortByDueDate(found)
  IN [success |-> TRUE,
      data |-> reminders,
      summary |-> [urgent |-> CountWith(reminders, "urgencyLevel", "urgent"),
                   upcoming |-> CountWith(reminders, "urgencyLevel", "upcoming"),
                   overdue |-> CountWith(reminders, "status", "overdue"),
                   overdue_extension |-> CountWith(reminders, "status", "overdue-extension"),
                   upfront_interest |-> CountWith(reminders, "reminderType", "upfront_interest"),
                   principal_payments |-> CountWith(reminders, "reminderType", "principal_payment")]]

\* lines 39-108: the reminders of one loan the activeLoans query may return
LoanReminders(loan, currentDate, read1, read2, read3) ==
  IF StageListed(loan, currentDate)
  THEN UpfrontReminders(loan, currentDate)
         \o PrincipalReminders(loan, currentDate, read1, read2, read3)
  ELSE <<>>

\* GET /reminders for a book of one loan
GetReminders ==
  /\ pc = "call"
  /\ args.fn = "reminders"
  /\ \E d1 \in 0..MaxClockTicks : \E d2 \in d1..MaxClockTicks : \E d3 \in d2..MaxClockTicks :
       /\ ret' = RemindersResponse(LoanReminders(args.loan, now, now + d1, now + d2, now + d3))
       /\ now' = now + d3
       /\ ticks' = d3
  /\ pc' = "done"
  /\ UNCHANGED <<args, schedVars, flowVars, remVars>>

\* the repayment dates of the book: around today, at the one- and two-week
\* marks, and a year back
PrincipalDates ==
  StatusDates \cup {AddDays(Today, k) : k \in {-366, -365, 7, 8, 14, 15}}

InitBorrowerReminders ==
  /\ pc = "call"
  /\ now \in ClockValues
  /\ ticks = 0
  /\ args \in [fn : {"reminders"},
               loan : [id : {1},
                       project_id : {59, 7},
                       status : {"operating", "closed"},
                       loan_amount : {5000000},
                       borrower_interest_rate : {1200},
                       loan_start_date : StatusDates,
                       loan_repayment_date : PrincipalDates,
                       loan_expiry_date : {AddDays(Today, k) : k \in {-LoanDateSpan, LoanDateSpan}}]]
  /\ ret = <<>>
  /\ ScheduleIdle
  /\ CashflowIdle
  /\ RemindersIdle

NextBorrowerReminders == GetReminders

SpecBorrowerReminders == InitBorrowerReminders /\ [][NextBorrowerReminders]_vars

BorrowerRemindersDone == pc = "done" /\ args.fn = "reminders"

\* C23: in GET /reminders every principal-payment reminder whose daysUntilDue
\* is <= 0 carries status 'overdue' or 'overdue-extension' and urgencyLevel
\* 'urgent', for special and non-special projects alike.
C23_PastDuePrincipalOverdue ==
  BorrowerRemindersDone =>
    \A k \in 1..Len(ret.data) :
      (ret.data[k].reminderType = "principal_payment" /\ ret.data[k].daysUntilDue <= 0)
        => /\ ret.data[k].status \in {"overdue", "overdue-extension"}
           /\ ret.data[k].urgencyLevel = "urgent"

\* the calendar month of a date, counted in months
MonthIndex(t) == getFullYear(t) * 12 + getMonth(t)

\* C24: for every anchor, consecutive dates emitted by generatePaymentSchedule
\* fall in consecutive calendar months: every calendar month between the first
\* and the last emitted date holds exactly one emitted date (none is skipped,
\* none holds two).
C24_OnePaymentPerMonth ==
  ScheduleDone =>
    \A k \in 1..(Len(ret) - 1) : MonthIndex(ret[k + 1]) = MonthIndex(ret[k]) + 1

(***************************************************************************)
(* The status of one loan fetched again and again while time passes: the   *)
(* loans query computes days_to_maturity as DATEDIFF(loan_repayment_date,  *)
(* CURDATE()) and getLoanStatus is called with it (calculations.js:251,    *)
(* 322-328).  The clock may advance between the reads of one call.         *)
(***************************************************************************)
\* DATEDIFF(s.loan_repayment_date, CURDATE())
days_to_maturity(loanRepaymentDate, clock) == Day(loanRepaymentDate) - Day(clock)

\* the clock advances between two fetches
ClockAdvances ==
  /\ pc = "lifecycle"
  /\ now < AddDays(Today, LoanDateSpan + 2)
  /\ now' = now + 1
  /\ ticks' = 0
  /\ UNCHANGED <<pc, args, ret, schedVars, flowVars, remVars>>

\* one fetch of the loan's status
FetchLoanStatus ==
  /\ pc = "lifecycle"
  /\ now < AddDays(Today, LoanDateSpan + 2)
  /\ \E d1 \in 0..MaxClockTicks : \E d2 \in d1..MaxClockTicks : \E d3 \in d2..MaxClockTicks :
       /\ ret' = getLoanStatus(args.projectId, args.loanStartDate, args.loanEndDate,
                               days_to_maturity(args.loanEndDate, now), args.expiryDate,
                               now + d1, now + d2, now + d3)
       /\ now' = now + d3
       /\ ticks' = d3
  /\ UNCHANGED <<pc, args, schedVars, flowVars, remVars>>

\* a loan with start <= end, watched from LifecycleDays days before today
InitLifecycle ==
  /\ pc = "lifecycle"
  /\ now = AddDays(Today, -LifecycleDays)
  /\ ticks = 0
  /\ args \in {a \in [fn : {"loanLifecycle"},
                      projectId : {59, 7},
                      loanStartDate : StatusDates,
                      loanEndDate : StatusDates,
                      expiryDate : {AddDays(Today, k) : k \in {-LoanDateSpan, LoanDateSpan}}] :
                 a.loanStartDate <= a.loanEndDate}
  /\ ret = "none"
  /\ ScheduleIdle
  /\ CashflowIdle
  /\ RemindersIdle

NextLifecycle == ClockAdvances \/ FetchLoanStatus

SpecLifecycle == InitLifecycle /\ [][NextLifecycle]_vars

\* the order pending < starting_soon < active < due_this_month < due_this_week
\* < due_soon < overdue-extension < overdue < completed
StatusRank(status) ==
  CASE status = "pending" -> 1
    [] status = "starting_soon" -> 2
    [] status = "active" -> 3
    [] status = "due_this_month" -> 4
    [] status = "due_this_week" -> 5
    [] status = "due_soon" -> 6
    [] status = "overdue-extension" -> 7
    [] status = "overdue" -> 8
    [] status = "completed" -> 9
    [] OTHER -> 0

\* C25: for a loan with fixed dates (start <= end) and daysToMaturity the
\* whole-day difference between the repayment date and today, the value
\* getLoanStatus returns never moves backwards in that order as the current
\* date advances, for special and non-special projects alike.
C25_StatusNeverMovesBack ==
  [][StatusRank(ret') >= StatusRank(ret)]_vars

\* C28: in the payment analysis of the cashflow projection the counts
\* partition the book: loansWithPayments + unpaidLoans = totalLoans and
\* fullyPaidLoans + partiallyPaidLoans = loansWithPayments, loans whose
\* expected interest is 0 included.
C28_PaymentCountsPartition ==
  CashflowDone =>
    LET a == ret.summary.paymentAnalysis
    IN /\ a.loansWithPayments + a.unpaidLoans = a.totalLoans
       /\ a.fullyPaidLoans + a.partiallyPaidLoans = a.loansWithPayments

\* C29: for all calendar dates start < end calculateContractPeriod returns
\* remainingDays < daysInLastMonth, so for principal > 0 and rate > 0 the
\* partial-month interest of calculateUpfrontInterest is strictly less than one
\* full month's interest (principal * annualRate / 12), and the days covered by
\* the whole-month walk plus remainingDays equal totalDays.
C29_PartialBelowFullMonth ==
  (UpfrontDone /\ args.startDate < args.endDate) =>
    LET period == ret.period
        boundary == WalkBoundary(args.startDate, period.fullMonths)
        oneMonth == RMul(MonthlyRate(args.borrowerRate), <<args.loanAmount, 1>>)
    IN /\ period.remainingDays < period.daysInLastMonth
       /\ (args.loanAmount > 0 /\ args.borrowerRate > 0)
            => RSub(oneMonth, ret.partialMonthInterest)[1] > 0
       /\ DaysBetween(args.startDate, boundary) + period.remainingDays = period.totalDays

\* a loan from the 31st whose first month step overflows past the end date:
\* the partial month is one day short of the whole month
C29_Witness ==
  /\ UpfrontDone
  /\ args.loanAmount > 0
  /\ args.borrowerRate > 0
  /\ getDate(args.startDate) = 31
  /\ args.startDate < args.endDate
  /\ ret.period.fullMonths = 0
  /\ ret.period.remainingDays = ret.period.daysInLastMonth - 1
  /\ ret.partialMonthInterest[1] > 0

(***************************************************************************)
(* GET /debug/loans/:projectTitle (routes/debug): the step-by-step         *)
(* recomputation of the interest status of the loans of a project.         *)
(* Amounts are whole cents: the principal is chosen so that every daily    *)
(* and monthly interest amount is a whole number of cents.                 *)
(***************************************************************************)
\* parseFloat(loan.total_interest_paid || 0)
PaidOrZero(v) == IF v = NULL THEN 0 ELSE v

\* an exact amount as a number of cents (rounded down when it is not whole)
InCents(a) == a[1] \div a[2]

\* lines 434-523: the debugInfo of one loan
DebugInfo(loan, currentDate) ==
  LET startDate == loan.loan_start_date
      endDate == loan.loan_repayment_date
      expireDate == loan.loan_expiry_date
      expected == InCents(calculateUpfrontInterest(loan.loan_amount, loan.borrower_interest_rate,
                                                   loan.loan_start_date,
                                                   loan.loan_repayment_date).totalInterest)
      actualPaidAmount == PaidOrZero(loan.total_interest_paid)
      special == loan.project_id \in SpecialProjects
      override == IF special /\ endDate < currentDate THEN "overdue"
                  ELSE IF special /\ expireDate < endDate THEN "overdue-extension"
                  ELSE "unknown"
      interestStatus ==
        IF override # "unknown" THEN override
        ELSE IF currentDate < startDate THEN "pending"
        ELSE IF actualPaidAmount = 0 THEN "overdue"
        ELSE IF actualPaidAmount * 100 >= expected * 100 - expected THEN "paid"
        ELSE "partial"
  IN [basicInfo |-> [id |-> loan.id, projectId |-> loan.project_id],
      dates |-> [currentDate |-> IsoDate(currentDate),
                 startInFuture |-> currentDate < startDate,
                 repaymentInPast |-> endDate < currentDate,
                 expiryInPast |-> expireDate < currentDate,
                 expiryBeforeRepayment |-> expireDate < endDate],
      payments |-> [expectedInterest |-> expected, actualPaid |-> actualPaidAmount],
      statusLogic |-> [isSpecialProject |-> special],
      result |-> [interestStatus |-> interestStatus]]

\* GET /debug/loans/:projectTitle
DebugLoans ==
  /\ pc = "call"
  /\ args.fn = "debugLoans"
  /\ ret' = IF args.loans = <<>>
            THEN [success |-> FALSE, results |-> <<>>]
            ELSE [success |-> TRUE,
                  results |-> [k \in 1..Len(args.loans) |-> DebugInfo(args.loans[k], now)]]
  /\ pc' = "done"
  /\ UNCHANGED <<now, ticks, args, schedVars, flowVars, remVars>>

\* the loans of the project: none, or one of 377,580.00 at 0.12
DebugLoanRows ==
  [id : {1},
   project_id : {59, 7},
   loan_amount : {37758000},
   borrower_interest_rate : {1200},
   loan_start_date : {AddDays(Today, k) : k \in {-LoanDateSpan, 0, 1}},
   loan_repayment_date : StatusDates,
   loan_expiry_date : {AddDays(Today, k) : k \in {-LoanDateSpan, LoanDateSpan}},
   total_interest_paid : {NULL, 0, 100000, 600000}]

InitDebugLoans ==
  /\ pc = "call"
  /\ now \in ClockValues
  /\ ticks = 0
  /\ args \in [fn : {"debugLoans"}, loans : {<<>>} \cup {<<l>> : l \in DebugLoanRows}]
  /\ ret = <<>>
  /\ ScheduleIdle
  /\ CashflowIdle
  /\ RemindersIdle

NextDebugLoans == DebugLoans

SpecDebugLoans == InitDebugLoans /\ [][NextDebugLoans]_vars

\* C30: for every loan and current date the interestStatus reported by the
\* debug endpoint equals the value getUpfrontInterestStatus returns for the
\* same expected interest, paid amount and start date, loans of the special
\* projects 59, 55 and 51 included.
C30_DebugMatchesMain ==
  (pc = "done" /\ args.fn = "debugLoans") =>
    \A k \in 1..Len(ret.results) :
      ret.results[k].result.interestStatus
        = getUpfrontInterestStatus(ret.results[k].payments.expectedInterest,
                                   ret.results[k].payments.actualPaid,
                                   args.loans[k].loan_start_date,
                                   args.loans[k].project_id,
                                   args.loans[k].loan_repayment_date,
                                   args.loans[k].loan_expiry_date,
                                   now)

====
